---- MODULE Spec2Model ----
(***************************************************************************)
(* A model of the DID-document context records of verida-js:               *)
(*   - DIDDocument (packages/did-document/src/did-document.ts)             *)
(*   - AutoAccount (packages/account-node/src/auto.ts)                     *)
(*   - StorageLink, whose source is not part of the tree: it is modelled   *)
(*     from section 4.2 of the specification.                              *)
(* Strings are TLA+ strings; a document is a record whose optional fields  *)
(* (service, keyAgreement, proof, ...) are present in its DOMAIN or not,   *)
(* as a JavaScript object's properties are.                                *)
(***************************************************************************)
EXTENDS Integers, Sequences, FiniteSets, TLC

VARIABLES
    doc,        \* DIDDocument.doc of the document instance in hand
    errors,     \* DIDDocument.errors of that instance
    published,  \* the resolver's store: lower-case DID -> published document
    failures,   \* number of addContext calls that have rejected so far
    account,    \* the AutoAccount: its accountConfig, its DID client's session,
                \* its contextAuths
    appContext, \* the Context: its account binding and the engines it caches
    nextId,     \* the id the next object that is constructed gets
    history,    \* what has happened so far, for the properties that refer to it
    vault,      \* the VaultAccount instances and what they share in the
                \* process: the stored sessions, the auth token of the page's
                \* query, CONFIG_DEFAULTS
    calls,      \* the calls in flight: caller -> where the call is suspended
                \* and what it has in hand
    last        \* the last completed call: what was called, with what, its outcome

vars == <<doc, errors, published, failures, account, appContext, nextId, history, vault,
          calls, last>>

(***************************************************************************)
(* Bounds of the model.                                                    *)
(***************************************************************************)
MaxFailures == 1

\* the number of objects (auth handlers, AuthContexts, engines) constructed
MaxObjects == 5

(***************************************************************************)
(* Generic helpers: JavaScript object and array primitives.                *)
(***************************************************************************)
Has(o, k) == k \in DOMAIN o

SetField(o, k, v) == [x \in DOMAIN o \cup {k} |-> IF x = k THEN v ELSE o[x]]

DeleteField(o, k) == [x \in DOMAIN o \ {k} |-> o[x]]

\* a collection read as an array: an absent one has no entries
Entries(d, k) == IF Has(d, k) THEN d[k] ELSE <<>>

\* Array.prototype.filter
Filter(s, Keep(_)) == SelectSeq(s, Keep)

\* Array.prototype.find, the test given as the set of the indices it
\* accepts: <<>> stands for undefined, <<e>> for the first match
Find(s, hits) ==
    IF hits = {} THEN <<>>
    ELSE <<s[CHOOSE i \in hits : \A j \in hits : i <= j]>>

\* number of entries of an array that satisfy a test
Count(s, Test(_)) == Cardinality({i \in DOMAIN s : Test(s[i])})

(***************************************************************************)
(* Identities, keys and the collaborating primitives.                      *)
(***************************************************************************)
DID == "did:vda:0xAbC"

\* String.prototype.toLowerCase on the strings the model uses as DIDs
ToLowerCase(s) ==
    CASE s = "did:vda:0xAbC" -> "did:vda:0xabc"
      [] s = "DID:VDA:0XABC" -> "did:vda:0xabc"
      [] OTHER -> s

\* EncryptionUtils.hash: deterministic, one-way, collision free
hash(s) == "H(" \o s \o ")"

\* the mutant of generateContextHash: the DID is hashed in the case given
generateContextHashKeepsCase(did, contextName) ==
    hash(did \o "/" \o contextName)

\* static generateContextHash(did, contextName)
generateContextHash(did, contextName) ==
    hash(ToLowerCase(did) \o "/" \o contextName)

RootPrivateKey == "priv:root"
OtherPrivateKey == "priv:other"

\* the public key (hex) that belongs to a private key
PublicKeyOf(privateKey) == "pub(" \o privateKey \o ")"

\* EncryptionUtils.signData / verifySig: a signature binds the data and the key
signData(data, privateKey) == [data |-> data, key |-> privateKey]

encVerifySig(data, signature, publicKeyHex) ==
    /\ signature.data = data
    /\ PublicKeyOf(signature.key) = publicKeyHex

(***************************************************************************)
(* DIDDocument                                                             *)
(***************************************************************************)
EndpointTypes == {"database", "messaging", "storage", "notification"}

KeyFragments == {"sign", "asym"}

\* `${this.doc.id}?context=${contextHash}`
contextDid(id, contextHash) == id \o "?context=" \o contextHash

\* `${this.doc.id}?context=${contextHash}#${fragment}`
contextEntryId(id, contextHash, fragment) ==
    contextDid(id, contextHash) \o "#" \o fragment

\* the mutant of match: every entry id matches
matchEveryEntry(entryId, prefix) == TRUE

\* entry.id.match(contextDid): the unanchored pattern matches exactly the
\* ids that carry the context prefix followed by a fragment.
match(entryId, prefix) ==
    \E f \in EndpointTypes \cup KeyFragments : entryId = prefix \o "#" \o f

\* constructor(doc: string, publicKeyHex)
NewDIDDocument(did, publicKeyHex) ==
    LET id == ToLowerCase(did) IN
    [ id |-> id,
      controller |-> id,
      assertionMethod |-> <<id>>,
      verificationMethod |-> << [ id |-> id,
                                  type |-> "EcdsaSecp256k1VerificationKey2019",
                                  controller |-> id,
                                  publicKeyHex |-> publicKeyHex ] >> ]

\* constructor(doc: DIDDocumentStruct) and import(doc)
ImportDIDDocument(struct) == [struct EXCEPT !.id = ToLowerCase(struct.id)]

\* the mutant of hasContextMethod: the lookup is taken to succeed
hasContextMethodAlways(d, prefix) == TRUE

\* removeContext: is there a verification method of this context?
hasContextMethod(d, prefix) ==
    Find(d.verificationMethod,
         {i \in DOMAIN d.verificationMethod :
              match(d.verificationMethod[i].id, prefix)}) # <<>>

\* removeContext: remove signing key and asymmetric key
filterVerificationMethod(d, prefix) ==
    [d EXCEPT !.verificationMethod = Filter(@, LAMBDA e : ~match(e.id, prefix))]

filterAssertionMethod(d, contextHash) ==
    [d EXCEPT !.assertionMethod =
        Filter(@, LAMBDA e : e # contextEntryId(d.id, contextHash, "sign"))]

filterKeyAgreement(d, contextHash) ==
    [d EXCEPT !.keyAgreement =
        Filter(@, LAMBDA e : e # contextEntryId(d.id, contextHash, "asym"))]

\* the mutant of filterService: the service entries are left in place
filterServiceSkipped(d, prefix) == d

\* removeContext: remove services
filterService(d, prefix) ==
    [d EXCEPT !.service = Filter(@, LAMBDA e : ~match(e.id, prefix))]

\* the mutant of removeContext: true is returned and no entry is removed
removeContextRemovesNothing(d, errs, contextName) ==
    [doc |-> d, errors |-> errs, ret |-> TRUE, threw |-> FALSE]

\* removeContext(contextName) on document d: the document, the errors, the
\* value returned, and whether a TypeError was thrown part-way (a collection
\* that is filtered is undefined).
removeContext(d, errs, contextName) ==
    LET contextHash == generateContextHash(d.id, contextName)
        prefix == contextDid(d.id, contextHash)
        d1 == filterVerificationMethod(d, prefix)
        d2 == filterAssertionMethod(d1, contextHash)
        d3 == filterKeyAgreement(d2, contextHash)
        d4 == filterService(d3, prefix)
    IN  IF ~Has(d, "verificationMethod")
        THEN [doc |-> d, errors |-> <<"No verification method specified">>,
              ret |-> FALSE, threw |-> FALSE]
        ELSE IF ~hasContextMethod(d, prefix)
        THEN [doc |-> d,
              errors |-> <<"Unable to locate verification method for this context">>,
              ret |-> FALSE, threw |-> FALSE]
        ELSE IF ~Has(d, "assertionMethod")
        THEN [doc |-> d1, errors |-> errs, ret |-> FALSE, threw |-> TRUE]
        ELSE IF ~Has(d, "keyAgreement")
        THEN [doc |-> d2, errors |-> errs, ret |-> FALSE, threw |-> TRUE]
        ELSE IF ~Has(d, "service")
        THEN [doc |-> d3, errors |-> errs, ret |-> FALSE, threw |-> TRUE]
        ELSE [doc |-> d4, errors |-> errs, ret |-> TRUE, threw |-> FALSE]

\* addContextService(contextHash, endpointType, serviceType, endpointUri)
addContextService(d, contextHash, endpointType, serviceType, endpointUri) ==
    LET service == IF Has(d, "service") THEN d.service ELSE <<>>
    IN  SetField(d, "service",
            Append(service, [ id |-> contextEntryId(d.id, contextHash, endpointType),
                              type |-> serviceType,
                              serviceEndpoint |-> endpointUri ]))

\* addContextSignKey(contextHash, publicKeyHex)
addContextSignKey(d, contextHash, publicKeyHex) ==
    LET vm == IF Has(d, "verificationMethod") THEN d.verificationMethod ELSE <<>>
        d1 == SetField(d, "verificationMethod",
                Append(vm, [ id |-> contextEntryId(d.id, contextHash, "sign"),
                             type |-> "EcdsaSecp256k1VerificationKey2019",
                             controller |-> d.id,
                             publicKeyHex |-> publicKeyHex ]))
        am == IF Has(d1, "assertionMethod") THEN d1.assertionMethod ELSE <<>>
    IN  SetField(d1, "assertionMethod",
            Append(am, contextEntryId(d.id, contextHash, "sign")))

\* addContextAsymKey(contextHash, publicKeyHex)
addContextAsymKey(d, contextHash, publicKeyHex) ==
    LET vm == IF Has(d, "verificationMethod") THEN d.verificationMethod ELSE <<>>
        d1 == SetField(d, "verificationMethod",
                Append(vm, [ id |-> contextEntryId(d.id, contextHash, "asym"),
                             type |-> "Curve25519EncryptionPublicKey",
                             controller |-> d.id,
                             publicKeyHex |-> publicKeyHex ]))
        ka == IF Has(d1, "keyAgreement") THEN d1.keyAgreement ELSE <<>>
    IN  SetField(d1, "keyAgreement",
            Append(ka, contextEntryId(d.id, contextHash, "asym")))

\* addContext: a service entry for an endpoint type the caller may leave out
addContextOptionalService(d, contextHash, endpointType, endpoints) ==
    IF Has(endpoints, endpointType)
    THEN addContextService(d, contextHash, endpointType,
             endpoints[endpointType].type, endpoints[endpointType].endpointUri)
    ELSE d

\* addContext: the service entries, in the order the code appends them
addContextEndpoints(d, contextHash, endpoints) ==
    addContextOptionalService(
        addContextOptionalService(
            addContextService(
                addContextService(d, contextHash, "database",
                    endpoints.database.type, endpoints.database.endpointUri),
                contextHash, "messaging",
                endpoints.messaging.type, endpoints.messaging.endpointUri),
            contextHash, "storage", endpoints),
        contextHash, "notification", endpoints)

\* addContext, from the outcome of its removeContext to the await
addContextAfterRemove(removed, contextHash, endpoints) ==
    IF removed.threw
    THEN [doc |-> removed.doc, errors |-> removed.errors, threw |-> TRUE]
    ELSE [doc |-> addContextEndpoints(removed.doc, contextHash, endpoints),
          errors |-> removed.errors, threw |-> FALSE]

\* The part of addContext that runs before `await keyring.getKeys()`:
\* removeContext, then the service entries.
addContextServices(d, errs, contextName, endpoints) ==
    addContextAfterRemove(removeContext(d, errs, contextName),
                          generateContextHash(d.id, contextName), endpoints)

\* The part of addContext that runs once getKeys has resolved.
addContextKeys(d, contextName, keys) ==
    addContextAsymKey(
        addContextSignKey(d, generateContextHash(d.id, contextName),
                          keys.signPublicKeyHex),
        generateContextHash(d.id, contextName), keys.asymPublicKeyHex)

\* addContext, from the outcome of its first part on: getKeys rejects, or
\* the keys are added.
addContextAfterServices(first, contextName, keyring) ==
    IF first.threw \/ keyring.rejects
    THEN [doc |-> first.doc, errors |-> first.errors, threw |-> TRUE]
    ELSE [doc |-> addContextKeys(first.doc, contextName, keyring),
          errors |-> first.errors, threw |-> FALSE]

\* addContext(contextName, keyring, endpoints), run to completion. A keyring
\* is what its getKeys gives: the two public keys, or a rejection.
addContext(d, errs, contextName, keyring, endpoints) ==
    addContextAfterServices(addContextServices(d, errs, contextName, endpoints),
                            contextName, keyring)

\* the mutant of getProofData: the proof is left in the data that is signed
getProofDataKeepsProof(d) == d

\* getProofData(): a copy of the document without its proof
getProofData(d) == DeleteField(d, "proof")

\* signProof(privateKey)
signProof(d, privateKey) ==
    SetField(d, "proof",
        [ type |-> "EcdsaSecp256k1VerificationKey2019",
          verificationMethod |-> d.id,
          proofPurpose |-> "assertionMethod",
          proofValue |-> signData(getProofData(d), privateKey) ])

\* verifySig(data, signature)
verifySig(d, data, signature) ==
    LET found == Find(d.verificationMethod,
                      {i \in DOMAIN d.verificationMethod :
                           d.verificationMethod[i].id = d.id})
    IN  IF found = <<>> THEN FALSE
        ELSE encVerifySig(data, signature, found[1].publicKeyHex)

\* verifyProof()
verifyProof(d) ==
    IF ~Has(d, "proof") THEN FALSE
    ELSE verifySig(d, getProofData(d), d.proof.proofValue)

\* verifyContextSignature(data, contextName, signature, contextIsHash):
\* whether the call threw (this.doc.verificationMethod is undefined) and
\* the boolean returned.
verifyContextSignature(d, data, contextName, signature, contextIsHash) ==
    LET contextHash == IF contextIsHash THEN contextName
                       ELSE generateContextHash(d.id, contextName)
        publicKeyLookup == contextEntryId(d.id, contextHash, "sign")
        found == IF Has(d, "verificationMethod")
                 THEN Find(d.verificationMethod,
                           {i \in DOMAIN d.verificationMethod :
                                d.verificationMethod[i].id = publicKeyLookup})
                 ELSE <<>>
    IN  IF ~Has(d, "verificationMethod") THEN [threw |-> TRUE, ret |-> FALSE]
        ELSE IF found = <<>> THEN [threw |-> FALSE, ret |-> FALSE]
        ELSE [threw |-> FALSE,
              ret |-> encVerifySig(data, signature, found[1].publicKeyHex)]

\* locateServiceEndpoint(contextName, endpointType): whether the call threw
\* (this.doc.service is undefined) and what find returned.
locateServiceEndpoint(d, contextName, endpointType) ==
    LET contextHash == generateContextHash(d.id, contextName)
        expectedEndpointId == contextEntryId(d.id, contextHash, endpointType)
    IN  IF ~Has(d, "service")
        THEN [threw |-> TRUE, value |-> <<>>]
        ELSE [threw |-> FALSE,
              value |-> Find(d.service,
                             {i \in DOMAIN d.service :
                                  d.service[i].id = expectedEndpointId})]

(***************************************************************************)
(* The inputs the operations are driven with.                              *)
(***************************************************************************)
ContextNames == {"App One", "App Two"}

\* Endpoints: database and messaging are required, storage and notification
\* are optional.
EndpointsBasic ==
    [ database  |-> [type |-> "VeridaDatabase", endpointUri |-> "https://db.example/"],
      messaging |-> [type |-> "VeridaMessage", endpointUri |-> "https://msg.example/"] ]

EndpointsFull ==
    [ database     |-> [type |-> "VeridaDatabase", endpointUri |-> "https://db2.example/"],
      messaging    |-> [type |-> "VeridaMessage", endpointUri |-> "https://msg2.example/"],
      storage      |-> [type |-> "VeridaStorage", endpointUri |-> "https://st.example"],
      notification |-> [type |-> "VeridaNotification", endpointUri |-> "https://nt.example/"] ]

EndpointSets == {EndpointsBasic, EndpointsFull}

\* A keyring, seen through getKeys(): the public keys it resolves to, or a
\* rejection.
KeyringOf(seed) ==
    [ signPublicKeyHex |-> "0xsign:" \o seed,
      asymPublicKeyHex |-> "0xasym:" \o seed,
      rejects |-> FALSE ]

RejectingKeyring == [KeyringOf("unavailable") EXCEPT !.rejects = TRUE]

Keyrings == {KeyringOf("k1"), KeyringOf("k2"), RejectingKeyring}

\* AccountConfig: the default servers of an AutoAccount
AccountConfigBasic ==
    [ defaultDatabaseServer |-> EndpointsBasic.database,
      defaultMessageServer  |-> EndpointsBasic.messaging ]

AccountConfigFull ==
    [ defaultDatabaseServer     |-> EndpointsFull.database,
      defaultMessageServer      |-> EndpointsFull.messaging,
      defaultStorageServer      |-> EndpointsFull.storage,
      defaultNotificationServer |-> EndpointsFull.notification ]

AccountConfigs == {AccountConfigBasic, AccountConfigFull}

\* new AutoAccount(accountConfig, autoConfig)
NewAutoAccount(accountConfig) ==
    [accountConfig |-> accountConfig, authenticated |-> FALSE, authentications |-> 0,
     contextAuths |-> <<>>]

NoEndpoints == [none |-> TRUE]
NoKeyring == [none |-> TRUE]
NoDocument == [none |-> TRUE]

\* the record kept of a completed call
Call(op, name, endpoints, keyring, ret, threw, pre) ==
    [ op |-> op, name |-> name, endpoints |-> endpoints, keyring |-> keyring,
      ret |-> ret, threw |-> threw, pre |-> pre, arg |-> "", value |-> <<>> ]

\* the record kept of a completed call of the account or of the Context:
\* its argument, the error it failed with ("" when it returned), the value
\* it gave, and the calls it made on its collaborators
Outcome(op, name, arg, error, value, effects) ==
    [ op |-> op, name |-> name, arg |-> arg, ret |-> error = "", threw |-> error # "",
      error |-> error, value |-> value, effects |-> effects ]

\* the record kept of a completed lookup: its argument and the value it gave
Lookup(op, name, arg, ret, threw, value) ==
    [ op |-> op, name |-> name, endpoints |-> NoEndpoints, keyring |-> NoKeyring,
      ret |-> ret, threw |-> threw, pre |-> NoDocument, arg |-> arg, value |-> value ]

(***************************************************************************)
(* The resolver / publisher (DIDClient) and StorageLink.                   *)
(***************************************************************************)
\* didClient.get(did): <<>> when no document is published for the DID
didClientGet(store, did) ==
    IF ToLowerCase(did) \in DOMAIN store THEN <<store[ToLowerCase(did)]>> ELSE <<>>

\* didClient.save(document): sign the proof with the session's key, publish
didClientSave(store, d, privateKey) ==
    SetField(store, d.id, signProof(d, privateKey))

\* the Endpoints addContext takes, from a config's services
EndpointsOf(services) ==
    LET required == [ database |-> services.databaseServer,
                      messaging |-> services.messageServer ]
        withStorage == IF Has(services, "storageServer")
                       THEN SetField(required, "storage", services.storageServer)
                       ELSE required
    IN  IF Has(services, "notificationServer")
        THEN SetField(withStorage, "notification", services.notificationServer)
        ELSE withStorage

\* the service {type, endpointUri} of a service entry of the document
ServiceOf(entry) == [type |-> entry.type, endpointUri |-> entry.serviceEndpoint]

\* Array.prototype.find by id
FindId(s, id) == Find(s, {i \in DOMAIN s : s[i].id = id})

\* the services of a config, from the service entries found; the storage
\* and notification servers are left out when there is no entry
linkServices(database, messaging, storage, notification) ==
    [ t \in {"databaseServer", "messageServer"}
            \cup (IF storage # <<>> THEN {"storageServer"} ELSE {})
            \cup (IF notification # <<>> THEN {"notificationServer"} ELSE {}) |->
        CASE t = "databaseServer" -> ServiceOf(database[1])
          [] t = "messageServer" -> ServiceOf(messaging[1])
          [] t = "storageServer" -> ServiceOf(storage[1])
          [] t = "notificationServer" -> ServiceOf(notification[1]) ]

\* the SecureContextConfig rebuilt from the entries found for a context
linkConfig(contextHash, signKey, asymKey, database, messaging, storage, notification) ==
    IF signKey = <<>> \/ asymKey = <<>> \/ database = <<>> \/ messaging = <<>>
    THEN <<>>
    ELSE << [ id |-> contextHash,
              publicKeys |->
                  [ signKey |-> [ type |-> signKey[1].type,
                                  publicKeyHex |-> signKey[1].publicKeyHex ],
                    asymKey |-> [ type |-> asymKey[1].type,
                                  publicKeyHex |-> asymKey[1].publicKeyHex ] ],
              services |-> linkServices(database, messaging, storage, notification) ] >>

\* the link of a context hash in a resolved document
documentLink(d, contextHash) ==
    linkConfig(contextHash,
        FindId(Entries(d, "verificationMethod"), contextEntryId(d.id, contextHash, "sign")),
        FindId(Entries(d, "verificationMethod"), contextEntryId(d.id, contextHash, "asym")),
        FindId(Entries(d, "service"), contextEntryId(d.id, contextHash, "database")),
        FindId(Entries(d, "service"), contextEntryId(d.id, contextHash, "messaging")),
        FindId(Entries(d, "service"), contextEntryId(d.id, contextHash, "storage")),
        FindId(Entries(d, "service"), contextEntryId(d.id, contextHash, "notification")))

\* StorageLink.getLink(didClient, did, context, contextIsName): <<>> stands
\* for undefined, <<config>> for the SecureContextConfig rebuilt from the
\* entries of the published document.
getLink(store, did, context, contextIsName) ==
    IF didClientGet(store, did) = <<>> THEN <<>>
    ELSE documentLink(didClientGet(store, did)[1],
                      IF contextIsName THEN generateContextHash(did, context)
                      ELSE context)

\* setLink: the document the context is added to, a new one when the DID
\* does not resolve
setLinkDocument(store, did, privateKey) ==
    IF didClientGet(store, did) = <<>>
    THEN NewDIDDocument(did, PublicKeyOf(privateKey))
    ELSE didClientGet(store, did)[1]

\* setLink: the document is saved when addContext has completed
setLinkSave(store, added, privateKey) ==
    IF added.threw THEN [store |-> store, threw |-> TRUE]
    ELSE [store |-> didClientSave(store, added.doc, privateKey), threw |-> FALSE]

\* StorageLink.setLink(didClient, config, keyring, privateKey): the store
\* afterwards and whether the call rejected.
setLink(store, did, config, keyring, privateKey) ==
    setLinkSave(store,
                addContext(setLinkDocument(store, did, privateKey), <<>>,
                           config.id, keyring, EndpointsOf(config.services)),
                privateKey)

\* unlink: the document is saved when removeContext has returned true
unlinkSave(store, removed, privateKey) ==
    IF removed.threw THEN [store |-> store, ret |-> FALSE, threw |-> TRUE]
    ELSE IF ~removed.ret THEN [store |-> store, ret |-> FALSE, threw |-> FALSE]
    ELSE [store |-> didClientSave(store, removed.doc, privateKey),
          ret |-> TRUE, threw |-> FALSE]

\* StorageLink.unlink(didClient, contextName): the store afterwards and the
\* boolean returned.
unlink(store, did, contextName, privateKey) ==
    IF didClientGet(store, did) = <<>>
    THEN [store |-> store, ret |-> FALSE, threw |-> FALSE]
    ELSE unlinkSave(store,
                    removeContext(didClientGet(store, did)[1], <<>>, contextName),
                    privateKey)

(***************************************************************************)
(* AutoAccount                                                             *)
(***************************************************************************)
\* sign(message): EncryptionUtils.signData with the wallet's key
accountSign(message) == signData(message, RootPrivateKey)

\* new Keyring(signature): the keys are derived from the signature
Keyring(signature) ==
    KeyringOf("seed(" \o signature.data \o "," \o signature.key \o ")")

\* keyring(contextName)
accountKeyring(contextName) ==
    LET did == ToLowerCase(DID)
        consentMessage == "Do you wish to unlock this storage context: \""
                            \o contextName \o "\"?\n\n" \o did
    IN  Keyring(accountSign(consentMessage))

\* a SecureContextConfig for a context name, with the keys of a keyring
SecureContextConfig(id, keyring, services) ==
    [ id |-> id,
      publicKeys |->
          [ signKey |-> [ type |-> "EcdsaSecp256k1VerificationKey2019",
                          publicKeyHex |-> keyring.signPublicKeyHex ],
            asymKey |-> [ type |-> "Curve25519EncryptionPublicKey",
                          publicKeyHex |-> keyring.asymPublicKeyHex ] ],
      services |-> services ]

\* DIDStorageConfig.generate(account, contextName, endpoints)
generateStorageConfig(contextName, services) ==
    SecureContextConfig(contextName, accountKeyring(contextName), services)

\* the endpoints storageConfig builds from the account's defaults
defaultServices(accountConfig) ==
    LET required == [ databaseServer |-> accountConfig.defaultDatabaseServer,
                      messageServer |-> accountConfig.defaultMessageServer ]
        withStorage == IF Has(accountConfig, "defaultStorageServer")
                       THEN SetField(required, "storageServer",
                                     accountConfig.defaultStorageServer)
                       ELSE required
    IN  IF Has(accountConfig, "defaultNotificationServer")
        THEN SetField(withStorage, "notificationServer",
                      accountConfig.defaultNotificationServer)
        ELSE withStorage

\* didClient.authenticate(privateKey, callType, web3Config): the session is
\* authenticated from then on; authentications counts the calls
didClientAuthenticate(acc) ==
    [acc EXCEPT !.authenticated = TRUE, !.authentications = @ + 1]

\* the mutant of ensureAuthenticated: the session is authenticated on every call
ensureAuthenticatedEveryTime(acc) == didClientAuthenticate(acc)

\* ensureAuthenticated()
ensureAuthenticated(acc) ==
    IF ~acc.authenticated THEN didClientAuthenticate(acc) ELSE acc

\* StorageLink.setContextService(didClient, contextName, endpointType,
\* serverType, endpointUri): the service entry is added to the published
\* document, which is saved; the call rejects when the DID does not resolve
setContextService(store, did, contextName, endpointType, serverType, endpointUri) ==
    IF didClientGet(store, did) = <<>> THEN [store |-> store, threw |-> TRUE]
    ELSE [store |-> didClientSave(store,
                        addContextService(didClientGet(store, did)[1],
                            generateContextHash(did, contextName),
                            endpointType, serverType, endpointUri),
                        RootPrivateKey),
          threw |-> FALSE]

\* linkStorage: the keyring passed to setLink is this.keyring(storageConfig.id)
linkStorageKeyring(storageConfig) == accountKeyring(storageConfig.id)

\* linkStorage(storageConfig)
linkStorage(store, storageConfig) ==
    setLink(store, DID, storageConfig, linkStorageKeyring(storageConfig), RootPrivateKey)

\* storageConfig: the generated config is returned once it is linked
storageConfigLinked(linked, generated) ==
    [store |-> linked.store, threw |-> linked.threw,
     value |-> IF linked.threw THEN <<>> ELSE <<generated>>]

\* storageConfig: generate the config of the context and link it
storageConfigCreate(store, generated) ==
    storageConfigLinked(linkStorage(store, generated), generated)

\* the mutant of storageConfigAfterGet: forceCreate creates the config
\* whether or not a link was found
storageConfigAlwaysCreates(store, acc, contextName, forceCreate, found) ==
    IF forceCreate
    THEN storageConfigCreate(store,
             generateStorageConfig(contextName, defaultServices(acc.accountConfig)))
    ELSE [store |-> store, threw |-> FALSE, value |-> found]

\* storageConfig, from the outcome of its getLink on
storageConfigAfterGet(store, acc, contextName, forceCreate, found) ==
    IF found = <<>> /\ forceCreate
    THEN storageConfigCreate(store,
             generateStorageConfig(contextName, defaultServices(acc.accountConfig)))
    ELSE [store |-> store, threw |-> FALSE, value |-> found]

\* storageConfig(contextName, forceCreate): the store afterwards, the config
\* returned (<<>> for undefined), whether the call rejected.
storageConfig(store, acc, contextName, forceCreate) ==
    storageConfigAfterGet(store, acc, contextName, forceCreate,
                          getLink(store, DID, contextName, TRUE))

(***************************************************************************)
(* AutoAccount: the auth handlers of the contexts (contextAuths). The      *)
(* handler, VeridaDatabaseAuthType, keeps the AuthContext it obtained from *)
(* the server; an object is told from another by the id it is created     *)
(* with.                                                                   *)
(***************************************************************************)
\* new VeridaDatabaseAuthType(account, contextName, serviceEndpoint, signKey)
NewVeridaDatabaseAuthType(id, contextName, serviceEndpoint, signKey) ==
    [ id |-> id, contextName |-> contextName, serviceEndpoint |-> serviceEndpoint,
      signKey |-> signKey, authContext |-> <<>> ]

\* the AuthContext a handler obtains from its server
NewAuthContext(id, handler) == [id |-> id, handler |-> handler.id]

\* handler.getAuthContext(authConfig): the AuthContext it holds, unless force
\* is set or it holds none; then the server is asked, and accepts or not.
authTypeGetAuthContext(handler, force, serverAccepts, freshId) ==
    IF handler.authContext # <<>> /\ ~force
    THEN [handler |-> handler, error |-> "", value |-> handler.authContext,
          effects |-> {}]
    ELSE IF serverAccepts
    THEN [handler |-> [handler EXCEPT !.authContext = <<NewAuthContext(freshId, handler)>>],
          error |-> "", value |-> <<NewAuthContext(freshId, handler)>>,
          effects |-> {"authenticate"}]
    ELSE [handler |-> handler, error |-> "AuthenticationFailed", value |-> <<>>,
          effects |-> {"authenticate"}]

\* getAuthContext: the handler of the context is in contextAuths by now; the
\* outcome of its getAuthContext is the outcome of the call
getAuthContextOfHandler(acc, contextName, got, created) ==
    [ account |-> [acc EXCEPT !.contextAuths = SetField(@, contextName, got.handler)],
      error |-> got.error, value |-> got.value,
      effects |-> got.effects \cup created ]

\* the mutant of authTypeSupported: every type has a handler
authTypeSupportedAlways(serviceEndpoint) == TRUE

\* getAuthContext: the one service type a handler is registered for
authTypeSupported(serviceEndpoint) == serviceEndpoint.type = "VeridaDatabase"

\* the mutant of getAuthContext: the cached handler is not looked at
getAuthContextIgnoresCache(acc, contextName, contextConfig, force, serverAccepts, freshId) ==
    getAuthContextOfHandler(acc, contextName,
        authTypeGetAuthContext(
            NewVeridaDatabaseAuthType(freshId, contextName,
                contextConfig.services.databaseServer, contextConfig.publicKeys.signKey),
            force, serverAccepts, freshId + 1),
        {"newHandler"})

\* getAuthContext(contextName, contextConfig, authConfig {force}): the
\* account afterwards, the error or the AuthContext, and what was done.
\* The new handler is stored in contextAuths before its getAuthContext is
\* called.
getAuthContext(acc, contextName, contextConfig, force, serverAccepts, freshId) ==
    IF Has(acc.contextAuths, contextName) /\ ~force
    THEN getAuthContextOfHandler(acc, contextName,
             authTypeGetAuthContext(acc.contextAuths[contextName], force,
                                    serverAccepts, freshId),
             {})
    ELSE IF authTypeSupported(contextConfig.services.databaseServer)
    THEN getAuthContextOfHandler(acc, contextName,
             authTypeGetAuthContext(
                 NewVeridaDatabaseAuthType(freshId, contextName,
                     contextConfig.services.databaseServer,
                     contextConfig.publicKeys.signKey),
                 force, serverAccepts, freshId + 1),
             {"newHandler"})
    ELSE [ account |-> acc, error |-> "Unknown auth context type (database)",
           value |-> <<>>, effects |-> {} ]

\* getAuthContext(contextName, contextConfig, authConfig {force}, authType):
\* the authType is named in the error and nowhere else
getAuthContextOfType(acc, contextName, contextConfig, force, authType, accepts, freshId) ==
    IF Has(acc.contextAuths, contextName) /\ ~force
    THEN getAuthContextOfHandler(acc, contextName,
             authTypeGetAuthContext(acc.contextAuths[contextName], force,
                                    accepts, freshId),
             {})
    ELSE IF authTypeSupported(contextConfig.services.databaseServer)
    THEN getAuthContextOfHandler(acc, contextName,
             authTypeGetAuthContext(
                 NewVeridaDatabaseAuthType(freshId, contextName,
                     contextConfig.services.databaseServer,
                     contextConfig.publicKeys.signKey),
                 force, accepts, freshId + 1),
             {"newHandler"})
    ELSE [ account |-> acc, error |-> "Unknown auth context type (" \o authType \o ")",
           value |-> <<>>, effects |-> {} ]

\* disconnectDevice(contextName, deviceId): the handler's answer, or the
\* error when the context has no handler
disconnectDevice(acc, contextName, deviceId, serverAccepts) ==
    IF ~Has(acc.contextAuths, contextName)
    THEN [ error |-> "Context not connected " \o contextName, value |-> <<>>,
           effects |-> {} ]
    ELSE [ error |-> "", value |-> <<serverAccepts>>, effects |-> {"disconnectDevice"} ]

(***************************************************************************)
(* Context (client-ts context): the account it is bound to, <<>> when it   *)
(* has none, and the engines it caches.                                    *)
(***************************************************************************)
\* the context name the Context is opened for
ContextName == "App One"

\* no call is in flight
NoCalls == [c \in {} |-> [at |-> "done"]]

\* no VaultAccount has been created
NoVault == [accounts |-> <<>>]

\* nothing has happened yet: no getAuthContext has returned an AuthContext
NoHistory == [authSucceeded |-> {}, handlerAuthType |-> <<>>]

\* new Context(client, contextName, didContextManager, account)
NewContext(contextName, boundAccount) ==
    [ contextName |-> contextName, account |-> boundAccount,
      databaseEngines |-> <<>>, messagingEngine |-> <<>>, notificationEngine |-> <<>> ]

\* the engine types that are registered (DATABASE_ENGINES, MESSAGING_ENGINES,
\* NOTIFICATION_ENGINES)
DATABASE_ENGINES == {"VeridaDatabase"}
MESSAGING_ENGINES == {"VeridaMessage"}
NOTIFICATION_ENGINES == {"VeridaNotification"}

\* what an operation of the Context gives: the Context, the resolver's
\* store and the account afterwards, the error it failed with ("" when it
\* returned), the value returned (<<>> for undefined), the calls it made on
\* its collaborators, and the number of objects it constructed
Result(ctx, store, acc, error, value, effects, constructed) ==
    [ ctx |-> ctx, store |-> store, account |-> acc, error |-> error,
      value |-> value, effects |-> effects, constructed |-> constructed ]

\* didContextManager.getDIDContextConfig, from the config the lookup gave
\* (<<>>: none)
contextConfigFound(ctx, store, acc, found, effects) ==
    Result(ctx, store, acc, "", found, effects, 0)

\* didContextManager.getDIDContextConfig, the account asked for its
\* storageConfig
contextConfigOfAccount(ctx, acc, got) ==
    IF got.threw
    THEN Result(ctx, got.store, ensureAuthenticated(acc),
                "Unable to link the storage context", <<>>,
                {"account.storageConfig"}, 0)
    ELSE contextConfigFound(ctx, got.store, ensureAuthenticated(acc), got.value,
                            {"account.storageConfig"})

\* didContextManager.getDIDContextConfig(did, contextName, forceCreate): the
\* account of the DID is asked for its storageConfig, any other DID is
\* looked up with the resolver
getDIDContextConfig(ctx, store, acc, did, contextName, forceCreate) ==
    IF ctx.account # <<>> /\ ToLowerCase(did) = ToLowerCase(DID)
    THEN contextConfigOfAccount(ctx, acc,
             storageConfig(store, acc, contextName, forceCreate))
    ELSE contextConfigFound(ctx, store, acc,
             getLink(store, did, contextName, TRUE), {"resolve"})

\* the error of a Context without an account
NotAuthenticated(ctx, store, acc, message) ==
    Result(ctx, store, acc, message, <<>>, {}, 0)

\* getContextConfig(did, forceCreate): did is <<>> when it is left out
getContextConfig(ctx, store, acc, did, forceCreate) ==
    IF did = <<>> /\ ctx.account = <<>>
    THEN NotAuthenticated(ctx, store, acc,
                          "No DID specified and no authenticated user")
    ELSE getDIDContextConfig(ctx, store, acc,
                             IF did = <<>> THEN DID ELSE did[1],
                             ctx.contextName, forceCreate)

\* the mutant of NewDatabaseEngine: every engine constructed is the same one
NewDatabaseEngineShared(id, ctx, databaseServer) ==
    [ id |-> 0, type |-> databaseServer.type, contextName |-> ctx.contextName,
      endpointUri |-> databaseServer.endpointUri, account |-> ctx.account ]

\* new engine(contextName, dbRegistry, endpointUri), and connectAccount when
\* the Context has an account
NewDatabaseEngine(id, ctx, databaseServer) ==
    [ id |-> id, type |-> databaseServer.type, contextName |-> ctx.contextName,
      endpointUri |-> databaseServer.endpointUri, account |-> ctx.account ]

\* the mutant of databaseEngineRegistered: every type has an engine
databaseEngineRegisteredAlways(engineType) == TRUE

\* getDatabaseEngine: DATABASE_ENGINES[engineType]
databaseEngineRegistered(engineType) == engineType \in DATABASE_ENGINES

\* getDatabaseEngine, from the outcome of getContextConfig on: the engine of
\* the type is constructed, connected and cached, or the type is unsupported
databaseEngineOfConfig(did, freshId, cfg) ==
    IF cfg.error # "" THEN cfg
    ELSE IF cfg.value = <<>>
    THEN Result(cfg.ctx, cfg.store, cfg.account,
                "TypeError: Cannot read properties of undefined",
                <<>>, cfg.effects, 0)
    ELSE IF ~databaseEngineRegistered(cfg.value[1].services.databaseServer.type)
    THEN Result(cfg.ctx, cfg.store, cfg.account,
                "Unsupported database engine type specified: "
                    \o cfg.value[1].services.databaseServer.type,
                <<>>, cfg.effects, 0)
    ELSE Result([cfg.ctx EXCEPT !.databaseEngines =
                    SetField(@, did, NewDatabaseEngine(freshId, cfg.ctx,
                                         cfg.value[1].services.databaseServer))],
                cfg.store, cfg.account, "",
                <<NewDatabaseEngine(freshId, cfg.ctx,
                                    cfg.value[1].services.databaseServer)>>,
                cfg.effects \cup {"newDatabaseEngine"}
                    \cup (IF cfg.ctx.account # <<>> THEN {"connectAccount"} ELSE {}),
                1)

\* the mutant of getDatabaseEngine: the cache is not consulted
getDatabaseEngineUncached(ctx, store, acc, did, createContext, freshId) ==
    databaseEngineOfConfig(did, freshId,
        getContextConfig(ctx, store, acc, <<did>>, createContext))

\* getDatabaseEngine(did, createContext)
getDatabaseEngine(ctx, store, acc, did, createContext, freshId) ==
    IF Has(ctx.databaseEngines, did)
    THEN Result(ctx, store, acc, "", <<ctx.databaseEngines[did]>>, {}, 0)
    ELSE databaseEngineOfConfig(did, freshId,
             getContextConfig(ctx, store, acc, <<did>>, createContext))

\* openDatabase, from the engine on: the engine opens the database and the
\* database is saved in the registry
databaseOfEngine(databaseName, got) ==
    IF got.error # "" THEN got
    ELSE [got EXCEPT !.value = <<[name |-> databaseName, engine |-> got.value[1].id]>>,
                     !.effects = @ \cup {"engine.openDatabase", "saveDb"}]

\* openDatabase(databaseName, config {did, createContext}): the did of the
\* config is <<>> when it is left out
openDatabase(ctx, store, acc, databaseName, did, createContext, freshId) ==
    IF ctx.account = <<>>
    THEN NotAuthenticated(ctx, store, acc,
                          "Unable to open database. No authenticated user.")
    ELSE databaseOfEngine(databaseName,
             getDatabaseEngine(ctx, store, acc,
                               IF did = <<>> THEN DID ELSE did[1],
                               createContext, freshId))

\* openExternalDatabase, from the outcome of its getContextConfig on: the
\* engine of the DID opens the database, which is not saved in the registry
externalDatabaseOfEngine(databaseName, got, effects) ==
    IF got.error # "" THEN [got EXCEPT !.effects = @ \cup effects]
    ELSE [got EXCEPT !.value = <<[name |-> databaseName, engine |-> got.value[1].id]>>,
                     !.effects = @ \cup effects \cup {"engine.openDatabase"}]

externalDatabaseOfConfig(databaseName, did, freshId, cfg) ==
    IF cfg.error # "" THEN cfg
    ELSE IF cfg.value = <<>>
    THEN Result(cfg.ctx, cfg.store, cfg.account,
                "TypeError: Cannot read properties of undefined",
                <<>>, cfg.effects, 0)
    ELSE externalDatabaseOfEngine(databaseName,
             getDatabaseEngine(cfg.ctx, cfg.store, cfg.account, did, FALSE, freshId),
             cfg.effects)

\* openExternalDatabase(databaseName, did) with neither dsn nor contextName
\* in its config
openExternalDatabase(ctx, store, acc, databaseName, did, freshId) ==
    externalDatabaseOfConfig(databaseName, did, freshId,
        getContextConfig(ctx, store, acc, <<did>>, FALSE))

\* client.openExternalContext(contextName, did): the Context the client
\* holds for the context name, or a new one with the client's account
openExternalContext(ctx, contextName) ==
    IF Has(ctx.client.contexts, contextName) THEN ctx.client.contexts[contextName]
    ELSE NewContext(contextName, ctx.account)

\* openExternalDatabase for another context name, from the outcome of the
\* openDatabase of the external Context on: the database is the one that
\* Context opened, and this Context is as it was
delegatedDatabase(ctx, contextName, effects, opened) ==
    [opened EXCEPT !.ctx = [ctx EXCEPT !.client.contexts =
                                SetField(@, contextName, opened.ctx)],
                   !.effects = (@ \ {"saveDb"}) \cup effects
                                   \cup {"client.openExternalContext"}]

\* openExternalDatabase for another context name, from the outcome of its
\* getContextConfig on
externalContextDatabase(ctx, contextName, databaseName, did, freshId, cfg) ==
    IF cfg.error # "" THEN cfg
    ELSE IF cfg.value = <<>>
    THEN Result(cfg.ctx, cfg.store, cfg.account,
                "TypeError: Cannot read properties of undefined",
                <<>>, cfg.effects, 0)
    ELSE delegatedDatabase(ctx, contextName, cfg.effects,
             openDatabase(openExternalContext(ctx, contextName), cfg.store,
                          cfg.account, databaseName, <<did>>, FALSE, freshId))

\* openExternalDatabase(databaseName, did, {contextName}) with a contextName
\* that is not the name of this Context, and no dsn
openExternalDatabaseOfContext(ctx, store, acc, databaseName, did, contextName, freshId) ==
    externalContextDatabase(ctx, contextName, databaseName, did, freshId,
        getDIDContextConfig(ctx, store, acc, did, contextName, FALSE))

\* openDatastore(schemaUri)
openDatastore(ctx, store, acc, schemaUri) ==
    IF ctx.account = <<>>
    THEN NotAuthenticated(ctx, store, acc,
                          "Unable to open datastore. No authenticated user.")
    ELSE Result(ctx, store, acc, "", <<[schemaUri |-> schemaUri]>>, {}, 0)

\* new Notification(context, endpointUri)
NewNotificationEngine(id, notificationServer) ==
    [ id |-> id, type |-> notificationServer.type,
      endpointUri |-> notificationServer.endpointUri ]

\* getNotification, from the outcome of getContextConfig on
notificationOfConfig(freshId, cfg) ==
    IF cfg.error # "" THEN cfg
    ELSE IF cfg.value = <<>> \/ ~Has(cfg.value[1].services, "notificationServer")
    THEN Result(cfg.ctx, cfg.store, cfg.account, "", <<>>, cfg.effects, 0)
    ELSE IF cfg.value[1].services.notificationServer.type \notin NOTIFICATION_ENGINES
    THEN Result(cfg.ctx, cfg.store, cfg.account,
                "Unsupported messaging engine type specified: "
                    \o cfg.value[1].services.notificationServer.type,
                <<>>, cfg.effects, 0)
    ELSE Result([cfg.ctx EXCEPT !.notificationEngine =
                    <<NewNotificationEngine(freshId,
                          cfg.value[1].services.notificationServer)>>],
                cfg.store, cfg.account, "",
                <<NewNotificationEngine(freshId,
                      cfg.value[1].services.notificationServer)>>,
                cfg.effects \cup {"newNotificationEngine"}, 1)

\* getNotification(): <<>> stands for undefined
getNotification(ctx, store, acc, freshId) ==
    IF ctx.notificationEngine # <<>>
    THEN Result(ctx, store, acc, "", ctx.notificationEngine, {}, 0)
    ELSE IF ctx.account = <<>>
    THEN NotAuthenticated(ctx, store, acc,
                          "Unable to open notification. No authenticated user.")
    ELSE notificationOfConfig(freshId,
             getContextConfig(ctx, store, acc, <<DID>>, FALSE))

\* new MessagingEngineVerida(context, messageConfig, notificationService):
\* the notification service is <<>> when there is none; connectAccount
\* gives it the did and the keyring of the account; it has no outbox yet
NewMessagingEngine(id, notificationService) ==
    [ id |-> id,
      notificationService |-> IF notificationService = <<>> THEN <<>>
                              ELSE <<notificationService[1].id>>,
      did |-> DID, outbox |-> FALSE ]

\* getMessaging, from the outcome of its getNotification on: the engine is
\* constructed with the notification service, connected and kept
messagingOfNotification(freshId, effects, got) ==
    IF got.error # "" THEN [got EXCEPT !.effects = @ \cup effects]
    ELSE Result([got.ctx EXCEPT !.messagingEngine =
                    <<NewMessagingEngine(freshId + got.constructed, got.value)>>],
                got.store, got.account, "",
                <<NewMessagingEngine(freshId + got.constructed, got.value)>>,
                effects \cup got.effects
                    \cup {"newMessagingEngine", "messaging.connectAccount"},
                got.constructed + 1)

\* getMessaging, from the outcome of getContextConfig on
messagingOfConfig(freshId, cfg) ==
    IF cfg.error # "" THEN cfg
    ELSE IF cfg.value = <<>>
    THEN Result(cfg.ctx, cfg.store, cfg.account,
                "TypeError: Cannot read properties of undefined",
                <<>>, cfg.effects, 0)
    ELSE IF cfg.value[1].services.messageServer.type \notin MESSAGING_ENGINES
    THEN Result(cfg.ctx, cfg.store, cfg.account,
                "Unsupported messaging engine type specified: "
                    \o cfg.value[1].services.messageServer.type,
                <<>>, cfg.effects, 0)
    ELSE messagingOfNotification(freshId, cfg.effects,
             getNotification(cfg.ctx, cfg.store, cfg.account, freshId))

\* getMessaging(messageConfig)
getMessaging(ctx, store, acc, freshId) ==
    IF ctx.messagingEngine # <<>>
    THEN Result(ctx, store, acc, "", ctx.messagingEngine, {}, 0)
    ELSE IF ctx.account = <<>>
    THEN NotAuthenticated(ctx, store, acc,
                          "Unable to open messaging. No authenticated user.")
    ELSE messagingOfConfig(freshId,
             getContextConfig(ctx, store, acc, <<DID>>, TRUE))

\* what outbox.send gives: it rejects, or resolves to null or to a response
OutboxOutcomes == {"rejects", "null", "sent"}

\* MessagingEngineVerida.getOutbox: the outbox is constructed over the
\* outbox datastore of the Context the first time
getOutbox(ctx, store, acc) ==
    IF ctx.messagingEngine[1].outbox
    THEN Result(ctx, store, acc, "", <<[outbox |-> TRUE]>>, {}, 0)
    ELSE IF openDatastore(ctx, store, acc, "outbox/entry").error # ""
    THEN openDatastore(ctx, store, acc, "outbox/entry")
    ELSE Result([ctx EXCEPT !.messagingEngine[1].outbox = TRUE], store, acc, "",
                <<[outbox |-> TRUE]>>, {"openDatastore"}, 0)

\* what notificationService.ping gives: it resolves, to true when the
\* server was told and to false when it was not, or it rejects
PingOutcomes == {"true", "false", "rejects"}

\* the mutant of sendPing: the ping is made without a notification service
sendPingAlways(got, response, pingOutcome) ==
    IF response = <<>>
    THEN [got EXCEPT !.value = response, !.effects = @ \cup {"outbox.send"}]
    ELSE [got EXCEPT !.value = response, !.effects = @ \cup {"outbox.send", "ping"}]

\* send: the notification service, when there is one, is pinged once the
\* outbox has given a response; the ping is awaited, and nothing catches
\* its rejection
sendPing(got, response, pingOutcome) ==
    IF response = <<>> \/ got.ctx.messagingEngine[1].notificationService = <<>>
    THEN [got EXCEPT !.value = response, !.effects = @ \cup {"outbox.send"}]
    ELSE IF pingOutcome # "rejects"
    THEN [got EXCEPT !.value = response, !.effects = @ \cup {"outbox.send", "ping"}]
    ELSE [got EXCEPT !.error = "ping failed", !.value = <<>>,
                     !.effects = @ \cup {"outbox.send", "ping"}]

\* send, from the outcome of getOutbox on
sendOfOutbox(got, outboxOutcome, pingOutcome) ==
    IF got.error # "" THEN got
    ELSE IF outboxOutcome = "rejects"
    THEN [got EXCEPT !.error = "outbox send failed", !.value = <<>>,
                     !.effects = @ \cup {"outbox.send"}]
    ELSE sendPing(got, IF outboxOutcome = "null" THEN <<>> ELSE <<[response |-> "sent"]>>,
                  pingOutcome)

\* MessagingEngineVerida.send(did, type, data, message, config), on the
\* messaging engine of the Context
send(ctx, store, acc, outboxOutcome, pingOutcome) ==
    sendOfOutbox(getOutbox(ctx, store, acc), outboxOutcome, pingOutcome)

\* the mutant of disconnect: the cached database engines are dropped too
disconnectDropsEngines(ctx, store, acc) ==
    IF ctx.account # <<>>
    THEN Result([ctx EXCEPT !.account = <<>>, !.databaseEngines = <<>>], store, acc,
                "", <<[returned |-> TRUE]>>, {"account.disconnect"}, 0)
    ELSE Result(ctx, store, acc, "", <<[returned |-> FALSE]>>, {}, 0)

\* disconnect(): account.disconnect(contextName), and the account is let go;
\* the boolean returned is the field of a record
disconnect(ctx, store, acc) ==
    IF ctx.account # <<>>
    THEN Result([ctx EXCEPT !.account = <<>>], store, acc, "", <<[returned |-> TRUE]>>,
                {"account.disconnect"}, 0)
    ELSE Result(ctx, store, acc, "", <<[returned |-> FALSE]>>, {}, 0)

(***************************************************************************)
(* Operations on one DIDDocument instance.                                 *)
(***************************************************************************)
AddContext(contextName, keyring, endpoints) ==
    \E r \in {addContext(doc, errors, contextName, keyring, endpoints)} :
        /\ keyring.rejects => failures < MaxFailures
        /\ doc' = r.doc
        /\ errors' = r.errors
        /\ failures' = IF r.threw THEN failures + 1 ELSE failures
        /\ last' = Call("addContext", contextName, endpoints, keyring,
                        ~r.threw, r.threw, doc)
        /\ UNCHANGED <<published, account, appContext, nextId, history, vault, calls>>

RemoveContext(contextName) ==
    \E r \in {removeContext(doc, errors, contextName)} :
        /\ doc' = r.doc
        /\ errors' = r.errors
        /\ last' = Call("removeContext", contextName, NoEndpoints, NoKeyring,
                        r.ret, r.threw, doc)
        /\ UNCHANGED <<published, failures, account, appContext, nextId, history, vault, calls>>

LocateServiceEndpoint(contextName, endpointType) ==
    \E r \in {locateServiceEndpoint(doc, contextName, endpointType)} :
        /\ last' = Lookup("locateServiceEndpoint", contextName, endpointType,
                          r.value # <<>>, r.threw, r.value)
        /\ UNCHANGED <<doc, errors, published, failures, account, appContext, nextId, history, vault, calls>>

(***************************************************************************)
(* Spec: one document, constructed from a bare DID, under any sequence of  *)
(* addContext and removeContext calls.                                     *)
(***************************************************************************)
Init ==
    /\ doc = NewDIDDocument(DID, PublicKeyOf(RootPrivateKey))
    /\ errors = <<>>
    /\ published = [d \in {} |-> NoDocument]
    /\ failures = 0
    /\ account = NewAutoAccount(AccountConfigBasic)
    /\ appContext = NewContext(ContextName, <<>>)
    /\ nextId = 1
    /\ history = NoHistory
    /\ vault = NoVault
    /\ calls = NoCalls
    /\ last = Call("constructor", "", NoEndpoints, NoKeyring, TRUE, FALSE, NoDocument)

Next ==
    \/ \E n \in ContextNames, k \in Keyrings, e \in EndpointSets : AddContext(n, k, e)
    \/ \E n \in ContextNames : RemoveContext(n)
    \/ \E n \in ContextNames, t \in EndpointTypes : LocateServiceEndpoint(n, t)

Spec == Init /\ [][Next]_vars

(***************************************************************************)
(* SpecProof: one document under addContext, removeContext, signProof and  *)
(* verifyProof.                                                            *)
(***************************************************************************)
SignProof(privateKey) ==
    /\ doc' = signProof(doc, privateKey)
    /\ last' = [Call("signProof", "", NoEndpoints, NoKeyring, TRUE, FALSE, doc)
                    EXCEPT !.arg = privateKey]
    /\ UNCHANGED <<errors, published, failures, account, appContext, nextId, history, vault, calls>>

VerifyProof ==
    /\ last' = Lookup("verifyProof", "", "", verifyProof(doc), FALSE, <<>>)
    /\ UNCHANGED <<doc, errors, published, failures, account, appContext, nextId, history, vault, calls>>

\* the keyring and the endpoints the contexts of SpecProof are added with
ProofKeyrings == {KeyringOf("k1")}
ProofEndpointSets == {EndpointsBasic}

NextProof ==
    \/ \E n \in ContextNames, k \in ProofKeyrings, e \in ProofEndpointSets :
          AddContext(n, k, e)
    \/ \E n \in ContextNames : RemoveContext(n)
    \/ \E k \in {RootPrivateKey, OtherPrivateKey} : SignProof(k)
    \/ VerifyProof

SpecProof == Init /\ [][NextProof]_vars

(***************************************************************************)
(* SpecLink: the account links, unlinks and looks up contexts through the  *)
(* resolver; a document instance is constructed or imported and           *)
(* removeContext is called on it.                                          *)
(***************************************************************************)
\* a DIDDocumentStruct that carries no verification method
BareStruct == [id |-> "DID:VDA:0XABC", controller |-> "DID:VDA:0XABC"]

\* the structs a document is imported from
ImportStructs == {BareStruct}

\* the keyrings a context is linked with: the account's own keyring for a
\* context, or one from elsewhere
LinkKeyrings == {accountKeyring(n) : n \in ContextNames} \cup {KeyringOf("k2")}

\* the services a config may name
ServiceSets == {defaultServices(AccountConfigBasic), defaultServices(AccountConfigFull)}

\* new DIDDocument(struct)
ImportDocument(struct) ==
    /\ doc' = ImportDIDDocument(struct)
    /\ errors' = <<>>
    /\ last' = Call("import", "", NoEndpoints, NoKeyring, TRUE, FALSE, NoDocument)
    /\ UNCHANGED <<published, failures, account, appContext, nextId, history, vault, calls>>

\* StorageLink.setLink(didClient, config, keyring, privateKey), the config
\* being one for the context with the public keys of the keyring
SetLink(contextName, services, keyring) ==
    LET config == SecureContextConfig(contextName, keyring, services) IN
    \E r \in {setLink(published, DID, config, keyring, RootPrivateKey)} :
        /\ published' = r.store
        /\ last' = [Call("setLink", config.id, config.services, keyring,
                         ~r.threw, r.threw, NoDocument)
                       EXCEPT !.value = <<config>>]
        /\ UNCHANGED <<doc, errors, failures, account, appContext, nextId, history, vault, calls>>

\* account.linkStorage(storageConfig), the config being the one
\* DIDStorageConfig.generate gives for the context
LinkStorage(contextName, services) ==
    LET config == generateStorageConfig(contextName, services) IN
    \E r \in {linkStorage(published, config)} :
        /\ published' = r.store
        /\ account' = ensureAuthenticated(account)
        /\ last' = [Call("linkStorage", config.id, config.services,
                         linkStorageKeyring(config), ~r.threw, r.threw, NoDocument)
                       EXCEPT !.value = <<config>>]
        /\ UNCHANGED <<doc, errors, failures, appContext, nextId, history, vault, calls>>

\* account.unlinkStorage(contextName)
UnlinkStorage(contextName) ==
    \E r \in {unlink(published, DID, contextName, RootPrivateKey)} :
        /\ published' = r.store
        /\ account' = ensureAuthenticated(account)
        /\ last' = Call("unlinkStorage", contextName, NoEndpoints, NoKeyring,
                        r.ret, r.threw, NoDocument)
        /\ UNCHANGED <<doc, errors, failures, appContext, nextId, history, vault, calls>>

\* account.storageConfig(contextName, forceCreate)
StorageConfig(contextName, forceCreate) ==
    \E r \in {storageConfig(published, account, contextName, forceCreate)} :
        /\ published' = r.store
        /\ account' = ensureAuthenticated(account)
        /\ last' = [Call("storageConfig", contextName, NoEndpoints, NoKeyring,
                         r.value # <<>>, r.threw, NoDocument)
                       EXCEPT !.arg = IF forceCreate THEN "forceCreate" ELSE "",
                              !.value = r.value]
        /\ UNCHANGED <<doc, errors, failures, appContext, nextId, history, vault, calls>>

\* StorageLink.getLink(didClient, did, contextName)
GetLink(contextName) ==
    \E r \in {getLink(published, DID, contextName, TRUE)} :
        /\ last' = Lookup("getLink", contextName, "", r # <<>>, FALSE, r)
        /\ UNCHANGED <<doc, errors, published, failures, account, appContext, nextId, history, vault, calls>>

InitLink ==
    /\ doc = NewDIDDocument(DID, PublicKeyOf(RootPrivateKey))
    /\ errors = <<>>
    /\ published = [d \in {} |-> NoDocument]
    /\ failures = 0
    /\ account \in {NewAutoAccount(c) : c \in AccountConfigs}
    /\ appContext = NewContext(ContextName, <<>>)
    /\ nextId = 1
    /\ history = NoHistory
    /\ vault = NoVault
    /\ calls = NoCalls
    /\ last = Call("constructor", "", NoEndpoints, NoKeyring, TRUE, FALSE, NoDocument)

NextLink ==
    \/ \E struct \in ImportStructs : ImportDocument(struct)
    \/ \E n \in ContextNames : RemoveContext(n)
    \/ \E n \in ContextNames, sv \in ServiceSets, k \in LinkKeyrings :
          SetLink(n, sv, k)
    \/ \E n \in ContextNames, sv \in ServiceSets : LinkStorage(n, sv)
    \/ \E n \in ContextNames : UnlinkStorage(n)
    \/ \E n \in ContextNames, f \in BOOLEAN : StorageConfig(n, f)
    \/ \E n \in ContextNames : GetLink(n)

SpecLink == InitLink /\ [][NextLink]_vars

(***************************************************************************)
(* SpecRelink: an account links the configs it generates for its contexts  *)
(* and links again the configs getLink returns for them, whose id is the   *)
(* context hash.                                                           *)
(***************************************************************************)
RelinkServiceSets == {defaultServices(AccountConfigBasic)}

\* account.linkStorage(storageConfig), the config being the one getLink
\* returns for the context
LinkStorageOfLink(contextName) ==
    /\ getLink(published, DID, contextName, TRUE) # <<>>
    /\ LET config == getLink(published, DID, contextName, TRUE)[1] IN
       \E r \in {linkStorage(published, config)} :
           /\ published' = r.store
           /\ account' = ensureAuthenticated(account)
           /\ last' = [Call("linkStorage", contextName, config.services,
                            linkStorageKeyring(config), ~r.threw, r.threw, NoDocument)
                          EXCEPT !.arg = "config of getLink",
                                 !.value = <<config>>]
    /\ UNCHANGED <<doc, errors, failures, appContext, nextId, history, vault, calls>>

NextRelink ==
    \/ \E n \in ContextNames, sv \in RelinkServiceSets : LinkStorage(n, sv)
    \/ \E n \in ContextNames : LinkStorageOfLink(n)
    \/ \E n \in ContextNames : UnlinkStorage(n)
    \/ \E n \in ContextNames : GetLink(n)

SpecRelink == InitLink /\ [][NextRelink]_vars

(***************************************************************************)
(* SpecIdentifier: one document, constructed or imported, under          *)
(* addContext, removeContext, locateServiceEndpoint and                   *)
(* verifyContextSignature, each called with the name of a context or with *)
(* its precomputed hash. The keyrings sign with the private key their     *)
(* sign public key belongs to.                                            *)
(***************************************************************************)
\* the private signing key of a keyring
SignPrivateKey(seed) == "priv:sign:" \o seed

\* a keyring whose signing key pair is known
SigningKeyring(seed) ==
    [ signPublicKeyHex |-> PublicKeyOf(SignPrivateKey(seed)),
      asymPublicKeyHex |-> "0xasym:" \o seed,
      rejects |-> FALSE ]

KeyringSeeds == {"k1", "k2"}
SigningKeyrings == {SigningKeyring("k1"), SigningKeyring("k2")}
IdentifierEndpointSets == {EndpointsBasic}

\* the precomputed hashes of the context names
ContextHashes == {generateContextHash(DID, n) : n \in ContextNames}

\* what a caller names a context by
ContextIdentifiers == ContextNames \cup ContextHashes

SignedData == {"message", "other message"}

\* verifyContextSignature(data, identifier, signature, contextIsHash) for
\* the signature of a keyring on the data "message"
VerifyContextSignature(data, identifier, seed, contextIsHash) ==
    \E r \in {verifyContextSignature(doc, data, identifier,
                                     signData("message", SignPrivateKey(seed)),
                                     contextIsHash)} :
        /\ last' = [Lookup("verifyContextSignature", identifier,
                           IF contextIsHash THEN "contextIsHash" ELSE "",
                           r.ret, r.threw,
                           <<[data |-> data, signer |-> seed]>>)
                       EXCEPT !.pre = doc]
        /\ UNCHANGED <<doc, errors, published, failures, account, appContext, nextId, history, vault, calls>>

NextIdentifier ==
    \/ \E struct \in ImportStructs : ImportDocument(struct)
    \/ \E n \in ContextNames, k \in SigningKeyrings, e \in IdentifierEndpointSets :
          AddContext(n, k, e)
    \/ \E x \in ContextIdentifiers : RemoveContext(x)
    \/ \E x \in ContextIdentifiers, t \in EndpointTypes : LocateServiceEndpoint(x, t)
    \/ \E data \in SignedData, x \in ContextIdentifiers, seed \in KeyringSeeds,
          contextIsHash \in BOOLEAN :
          VerifyContextSignature(data, x, seed, contextIsHash)

SpecIdentifier == Init /\ [][NextIdentifier]_vars

(***************************************************************************)
(* SpecAuth: one account under getAuthContext and disconnectDevice. The    *)
(* server of a handler accepts or refuses each request.                    *)
(***************************************************************************)
\* services whose database server is of a type no handler is registered for
UnsupportedServices ==
    [ databaseServer |-> [type |-> "OtherDatabase", endpointUri |-> "https://odb.example/"],
      messageServer  |-> [type |-> "VeridaMessage", endpointUri |-> "https://msg.example/"] ]

AuthServiceSets == {defaultServices(AccountConfigBasic), UnsupportedServices}

DeviceIds == {"Test device"}

\* the objects a call has constructed, from what it did
Constructed(r) ==
    (IF "newHandler" \in r.effects THEN 1 ELSE 0)
      + (IF "authenticate" \in r.effects /\ r.error = "" THEN 1 ELSE 0)

\* account.getAuthContext(contextName, contextConfig, {force})
GetAuthContext(contextName, services, force, serverAccepts) ==
    LET contextConfig == generateStorageConfig(contextName, services) IN
    \E r \in {getAuthContext(account, contextName, contextConfig, force,
                             serverAccepts, nextId)} :
        /\ nextId + Constructed(r) <= MaxObjects + 1
        /\ account' = r.account
        /\ nextId' = nextId + Constructed(r)
        /\ history' = [history EXCEPT !.authSucceeded =
                           IF r.error = "" THEN @ \cup {contextName} ELSE @]
        /\ last' = Outcome("getAuthContext", contextName,
                           [force |-> force, contextConfig |-> contextConfig],
                           r.error, r.value, r.effects)
        /\ UNCHANGED <<doc, errors, published, failures, appContext, vault, calls>>

\* account.disconnectDevice(contextName, deviceId)
DisconnectDevice(contextName, deviceId, serverAccepts) ==
    \E r \in {disconnectDevice(account, contextName, deviceId, serverAccepts)} :
        /\ last' = Outcome("disconnectDevice", contextName, deviceId,
                           r.error, r.value, r.effects)
        /\ UNCHANGED <<doc, errors, published, failures, account, appContext, nextId, history, vault, calls>>

\* the authType argument of getAuthContext
AuthTypes == {"database", "messaging"}

\* account.getAuthContext(contextName, contextConfig, {force}, authType)
GetAuthContextOfType(contextName, services, force, serverAccepts, authType) ==
    LET contextConfig == generateStorageConfig(contextName, services) IN
    \E r \in {getAuthContextOfType(account, contextName, contextConfig, force,
                                   authType, serverAccepts, nextId)} :
        /\ nextId + Constructed(r) <= MaxObjects + 1
        /\ account' = r.account
        /\ nextId' = nextId + Constructed(r)
        /\ history' = [history EXCEPT
                           !.authSucceeded =
                               IF r.error = "" THEN @ \cup {contextName} ELSE @,
                           !.handlerAuthType =
                               IF "newHandler" \in r.effects
                               THEN SetField(@, contextName, authType) ELSE @]
        /\ last' = Outcome("getAuthContext", contextName,
                           [force |-> force, contextConfig |-> contextConfig,
                            authType |-> authType],
                           r.error, r.value, r.effects)
        /\ UNCHANGED <<doc, errors, published, failures, appContext, vault, calls>>

NextAuthType ==
    \E n \in ContextNames, sv \in AuthServiceSets, force \in BOOLEAN,
       serverAccepts \in BOOLEAN, t \in AuthTypes :
       GetAuthContextOfType(n, sv, force, serverAccepts, t)

SpecAuthType == Init /\ [][NextAuthType]_vars

NextAuth ==
    \/ \E n \in ContextNames, sv \in AuthServiceSets, force \in BOOLEAN,
          serverAccepts \in BOOLEAN :
          GetAuthContext(n, sv, force, serverAccepts)
    \/ \E n \in ContextNames, dev \in DeviceIds, serverAccepts \in BOOLEAN :
          DisconnectDevice(n, dev, serverAccepts)

SpecAuth == Init /\ [][NextAuth]_vars

(***************************************************************************)
(* VaultAccount (account-web-vault): the accounts that ask the Vault for   *)
(* authorisation. The stored sessions (store, under VERIDA_AUTH_CONTEXT),  *)
(* the auth token of the page's query and CONFIG_DEFAULTS are shared by    *)
(* every instance of the process. VaultModalLogin is not part of the tree: *)
(* the login it starts is approved, with or without saving the session, or *)
(* rejected.                                                               *)
(***************************************************************************)
\* CONFIG_DEFAULTS as the module defines it
CONFIG_DEFAULTS ==
    [ loginUri |-> "https://vault.verida.io/request",
      serverUri |-> "wss://auth-server.testnet.verida.io:7002" ]

\* _.merge(object, source) on flat objects: the properties of the source are
\* assigned to the object, which is returned
merge(object, source) ==
    [ k \in DOMAIN object \cup DOMAIN source |->
        IF k \in DOMAIN source THEN source[k] ELSE object[k] ]

\* new VaultAccount(config)
NewVaultAccount(config) ==
    [ config |-> config, accountDid |-> <<>>, contextCache |-> <<>> ]

\* what the Vault answers for a context: the DID, the context, its config
\* and the signature the keyring is made from
VaultResponse(contextName) ==
    [ did |-> DID, context |-> contextName,
      contextConfig |-> generateStorageConfig(contextName,
                                              defaultServices(AccountConfigBasic)),
      signature |-> accountSign("unlock " \o contextName) ]

\* hasSession(contextName)
hasSession(v, contextName) ==
    \/ v.token # <<>> /\ v.token[1].context = contextName
    \/ v.sessions # <<>> /\ Has(v.sessions[1], contextName)

\* storedSessions[contextName] = response; store.set(VERIDA_AUTH_CONTEXT, ...)
storeSession(v, contextName, response) ==
    [v EXCEPT !.sessions =
        << SetField(IF @ = <<>> THEN <<>> ELSE @[1], contextName, response) >>]

\* setDid(response.did) and addContext(response.context,
\* response.contextConfig, new Keyring(response.signature)) on account a
vaultAddContext(v, a, response) ==
    [v EXCEPT !.accounts[a] =
        [@ EXCEPT !.accountDid = <<response.did>>,
                  !.contextCache =
                      SetField(@, response.context,
                               [ keyring |-> Keyring(response.signature),
                                 contextConfig |-> response.contextConfig ])]]

\* disconnect(contextName?)
vaultDisconnect(v, a) == [v EXCEPT !.sessions = <<>>]

\* loadFromSession(contextName): the state afterwards and the config
\* returned (<<>> for undefined)
loadFromSession(v, a, contextName) ==
    IF v.token # <<>> /\ v.token[1].context = contextName
    THEN [ vault |-> storeSession(vaultAddContext(v, a, v.token[1]),
                                  contextName, v.token[1]),
           value |-> <<v.token[1].contextConfig>> ]
    ELSE IF v.sessions = <<>> \/ ~Has(v.sessions[1], contextName)
    THEN [ vault |-> v, value |-> <<>> ]
    ELSE [ vault |-> vaultAddContext(v, a, v.sessions[1][contextName]),
           value |-> <<v.sessions[1][contextName].contextConfig>> ]

\* connectContext: _.merge(CONFIG_DEFAULTS, this.config, {callback,
\* callbackRejected}), the object the login is started with
loginConfig(v, a) ==
    merge(merge(v.defaults, v.accounts[a].config),
          [callback |-> a, callbackRejected |-> a])

\* connectContext, the session not being loaded: the login is started with
\* the merged config, which is CONFIG_DEFAULTS itself, and its outcome is
\* awaited
connectContextLogin(v, a, contextName, outcome, login) ==
    IF outcome = "rejected"
    THEN [ vault |-> [v EXCEPT !.defaults = login], value |-> <<[resolved |-> FALSE]>>,
           login |-> <<login>> ]
    ELSE [ vault |-> vaultAddContext(
                         IF outcome = "approved and saved"
                         THEN storeSession([v EXCEPT !.defaults = login],
                                           contextName, VaultResponse(contextName))
                         ELSE [v EXCEPT !.defaults = login],
                         a, VaultResponse(contextName)),
           value |-> <<[resolved |-> TRUE]>>, login |-> <<login>> ]

\* connectContext, from the outcome of loadFromSession on
connectContextLoaded(loaded, a, contextName, outcome) ==
    IF loaded.value # <<>>
    THEN [ vault |-> loaded.vault, value |-> <<[config |-> loaded.value[1]]>>,
           login |-> <<>> ]
    ELSE connectContextLogin(loaded.vault, a, contextName, outcome,
                             loginConfig(loaded.vault, a))

\* connectContext(contextName): the state afterwards, what the promise
\* resolved to, and the config the login was started with (<<>>: none)
connectContext(v, a, contextName, outcome) ==
    connectContextLoaded(loadFromSession(v, a, contextName), a, contextName, outcome)

\* keyring(contextName)
vaultKeyring(v, a, contextName) ==
    IF ~Has(v.accounts[a].contextCache, contextName)
    THEN [ error |-> "Unable to connect to requested context: " \o contextName,
           value |-> <<>> ]
    ELSE [ error |-> "",
           value |-> <<[keyring |-> v.accounts[a].contextCache[contextName].keyring]>> ]

\* storageConfig, from the outcome of its connectContext on
vaultStorageConfigConnected(connected, a, contextName) ==
    [ vault |-> connected.vault,
      value |-> IF Has(connected.vault.accounts[a].contextCache, contextName)
                THEN <<[config |-> connected.vault.accounts[a]
                                       .contextCache[contextName].contextConfig]>>
                ELSE <<>>,
      login |-> connected.login ]

\* storageConfig(contextName, forceCreate)
vaultStorageConfig(v, a, contextName, forceCreate, outcome) ==
    IF Has(v.accounts[a].contextCache, contextName)
    THEN [ vault |-> v,
           value |-> <<[config |-> v.accounts[a].contextCache[contextName].contextConfig]>>,
           login |-> <<>> ]
    ELSE IF forceCreate
    THEN vaultStorageConfigConnected(connectContext(v, a, contextName, outcome),
                                     a, contextName)
    ELSE [ vault |-> v, value |-> <<>>, login |-> <<>> ]

(***************************************************************************)
(* SpecVault: two VaultAccount instances of one process, under             *)
(* connectContext, keyring, storageConfig, disconnect and hasSession.      *)
(***************************************************************************)
VaultAccounts == {"first account", "second account"}
\* the config each account is created with: one names a login page of its
\* own, the other an auth server of its own
VaultConfigOf ==
    [ a \in VaultAccounts |->
        IF a = "first account" THEN [loginUri |-> "https://login.example/request"]
        ELSE [serverUri |-> "wss://auth.example:7002"] ]
QueryTokens == {<<>>, <<VaultResponse("App One")>>}
LoginOutcomes == {"approved and saved", "approved", "rejected"}

\* the contexts of account a that have been connected since its last
\* disconnect, a call having connected the context when it has given its
\* config or the login was approved
ConnectedAfter(v, a, contextName, value) ==
    IF value # <<>> /\ value # <<[resolved |-> FALSE]>>
    THEN v.connected \cup {<<a, contextName>>}
    ELSE v.connected

VaultConnectContext(a, contextName, outcome) ==
    /\ \E r \in {connectContext(vault, a, contextName, outcome)} :
          /\ vault' = [r.vault EXCEPT
                           !.connected = ConnectedAfter(vault, a, contextName, r.value)]
          /\ last' = Outcome("connectContext", contextName,
                             [account |-> a, login |-> r.login], "", r.value, {})
    /\ UNCHANGED <<doc, errors, published, failures, account, appContext, nextId,
                   history, calls>>

VaultKeyring(a, contextName) ==
    /\ \E r \in {vaultKeyring(vault, a, contextName)} :
          last' = Outcome("keyring", contextName, [account |-> a, login |-> <<>>],
                          r.error, r.value, {})
    /\ UNCHANGED <<doc, errors, published, failures, account, appContext, nextId,
                   history, vault, calls>>

VaultStorageConfig(a, contextName, forceCreate, outcome) ==
    /\ \E r \in {vaultStorageConfig(vault, a, contextName, forceCreate, outcome)} :
          /\ vault' = [r.vault EXCEPT
                           !.connected =
                               IF Has(vault.accounts[a].contextCache, contextName)
                               THEN @
                               ELSE ConnectedAfter(vault, a, contextName, r.value)]
          /\ last' = Outcome("storageConfig", contextName,
                             [account |-> a, login |-> r.login], "", r.value, {})
    /\ UNCHANGED <<doc, errors, published, failures, account, appContext, nextId,
                   history, calls>>

VaultDisconnect(a) ==
    /\ vault' = [vaultDisconnect(vault, a) EXCEPT
                     !.connected = {x \in @ : x[1] # a}]
    /\ last' = Outcome("disconnect", "", [account |-> a, login |-> <<>>], "", <<>>, {})
    /\ UNCHANGED <<doc, errors, published, failures, account, appContext, nextId,
                   history, calls>>

VaultHasSession(contextName) ==
    /\ last' = Outcome("hasSession", contextName, [account |-> "", login |-> <<>>], "",
                       <<[returned |-> hasSession(vault, contextName)]>>, {})
    /\ UNCHANGED <<doc, errors, published, failures, account, appContext, nextId,
                   history, vault, calls>>

InitVault ==
    /\ doc = NewDIDDocument(DID, PublicKeyOf(RootPrivateKey))
    /\ errors = <<>>
    /\ published = [d \in {} |-> NoDocument]
    /\ failures = 0
    /\ account = NewAutoAccount(AccountConfigBasic)
    /\ appContext = NewContext(ContextName, <<>>)
    /\ nextId = 1
    /\ history = NoHistory
    /\ vault \in { [ accounts |->
                          [a \in VaultAccounts |-> NewVaultAccount(VaultConfigOf[a])],
                      sessions |-> <<>>, token |-> t, defaults |-> CONFIG_DEFAULTS,
                      connected |-> {} ] : t \in QueryTokens }
    /\ calls = NoCalls
    /\ last = Outcome("constructor", "", [account |-> "", login |-> <<>>], "", <<>>, {})

NextVault ==
    \/ \E a \in VaultAccounts, n \in ContextNames, outcome \in LoginOutcomes :
          VaultConnectContext(a, n, outcome)
    \/ \E a \in VaultAccounts, n \in ContextNames : VaultKeyring(a, n)
    \/ \E a \in VaultAccounts, n \in ContextNames, forceCreate \in BOOLEAN,
          outcome \in LoginOutcomes : VaultStorageConfig(a, n, forceCreate, outcome)
    \/ \E a \in VaultAccounts : VaultDisconnect(a)
    \/ \E n \in ContextNames : VaultHasSession(n)

SpecVault == InitVault /\ [][NextVault]_vars

(***************************************************************************)
(* SpecContext: one Context at a time, opened with the account or without *)
(* it, under its operations and the send of its messaging engine. Two     *)
(* other DIDs have published a link of the context name: one with the     *)
(* registered database type, one with a type no engine is registered for. *)
(***************************************************************************)
\* the DID of the account, written in upper case
UpperCaseDID == "DID:VDA:0XABC"

OtherDID == "did:vda:0xother"
LegacyDID == "did:vda:0xlegacy"

\* the documents the other DIDs have published
PublishedByOthers ==
    setLink(setLink([d \in {} |-> NoDocument], OtherDID,
                    SecureContextConfig(ContextName, KeyringOf("k1"),
                                        defaultServices(AccountConfigFull)),
                    KeyringOf("k1"), OtherPrivateKey).store,
            LegacyDID,
            SecureContextConfig(ContextName, KeyringOf("k2"), UnsupportedServices),
            KeyringOf("k2"), OtherPrivateKey).store

\* the did argument of a call: <<>> when it is left out
DidArguments == {<<>>, <<DID>>, <<OtherDID>>, <<LegacyDID>>}
ExternalDIDs == {OtherDID, LegacyDID}
DatabaseNames == {"notes"}

\* a call of the Context has completed with outcome r
ContextCall(r, op, arg) ==
    /\ nextId + r.constructed <= MaxObjects + 1
    /\ appContext' = r.ctx
    /\ published' = r.store
    /\ account' = r.account
    /\ nextId' = nextId + r.constructed
    /\ last' = Outcome(op, appContext.contextName, arg, r.error, r.value, r.effects)
    /\ UNCHANGED <<doc, errors, failures, history, vault, calls>>

\* new Context(client, contextName, didContextManager, account?)
OpenContext(withAccount) ==
    /\ appContext' = NewContext(ContextName, IF withAccount THEN <<DID>> ELSE <<>>)
    /\ last' = Outcome("constructor", ContextName, withAccount, "", <<>>, {})
    /\ UNCHANGED <<doc, errors, published, failures, account, nextId, history, vault, calls>>

GetContextConfig(did, forceCreate) ==
    \E r \in {getContextConfig(appContext, published, account, did, forceCreate)} :
        ContextCall(r, "getContextConfig", did)

OpenDatabase(databaseName, did, createContext) ==
    \E r \in {openDatabase(appContext, published, account, databaseName, did,
                           createContext, nextId)} :
        ContextCall(r, "openDatabase", did)

OpenExternalDatabase(databaseName, did) ==
    \E r \in {openExternalDatabase(appContext, published, account, databaseName,
                                   did, nextId)} :
        ContextCall(r, "openExternalDatabase", <<did>>)

OpenDatastore ==
    \E r \in {openDatastore(appContext, published, account, "schema")} :
        ContextCall(r, "openDatastore", <<>>)

GetMessaging ==
    \E r \in {getMessaging(appContext, published, account, nextId)} :
        ContextCall(r, "getMessaging", <<>>)

GetNotification ==
    \E r \in {getNotification(appContext, published, account, nextId)} :
        ContextCall(r, "getNotification", <<>>)

Disconnect ==
    \E r \in {disconnect(appContext, published, account)} :
        ContextCall(r, "disconnect", <<>>)

\* send on the messaging engine a getMessaging has returned
Send(outboxOutcome, pingOutcome) ==
    /\ appContext.messagingEngine # <<>>
    /\ \E r \in {send(appContext, published, account, outboxOutcome, pingOutcome)} :
          ContextCall(r, "send", [outbox |-> outboxOutcome, ping |-> pingOutcome])

InitContext ==
    /\ doc = NewDIDDocument(DID, PublicKeyOf(RootPrivateKey))
    /\ errors = <<>>
    /\ published = PublishedByOthers
    /\ failures = 0
    /\ account \in {NewAutoAccount(c) : c \in AccountConfigs}
    /\ appContext = NewContext(ContextName, <<>>)
    /\ nextId = 1
    /\ history = NoHistory
    /\ vault = NoVault
    /\ calls = NoCalls
    /\ last = Outcome("constructor", ContextName, FALSE, "", <<>>, {})

NextContext ==
    \/ \E withAccount \in BOOLEAN : OpenContext(withAccount)
    \/ \E did \in DidArguments, forceCreate \in BOOLEAN : GetContextConfig(did, forceCreate)
    \/ \E n \in DatabaseNames, did \in DidArguments, createContext \in BOOLEAN :
          OpenDatabase(n, did, createContext)
    \/ \E n \in DatabaseNames, did \in ExternalDIDs : OpenExternalDatabase(n, did)
    \/ OpenDatastore
    \/ GetMessaging
    \/ GetNotification
    \/ Disconnect
    \/ \E outboxOutcome \in OutboxOutcomes, pingOutcome \in PingOutcomes :
          Send(outboxOutcome, pingOutcome)

SpecContext == InitContext /\ [][NextContext]_vars

(***************************************************************************)
(* SpecCase: one Context at a time whose databases are opened for the DID *)
(* of the account in either spelling, and for the DID of another.         *)
(***************************************************************************)
CaseDidArguments == {<<>>, <<DID>>, <<UpperCaseDID>>, <<OtherDID>>}

NextCase ==
    \/ \E withAccount \in BOOLEAN : OpenContext(withAccount)
    \/ \E n \in DatabaseNames, did \in CaseDidArguments, createContext \in BOOLEAN :
          OpenDatabase(n, did, createContext)
    \/ \E did \in CaseDidArguments, forceCreate \in BOOLEAN :
          GetContextConfig(did, forceCreate)
    \/ Disconnect

SpecCase == InitContext /\ [][NextCase]_vars

(***************************************************************************)
(* SpecConcurrentLink: two callers link contexts of the account's DID     *)
(* with linkStorage or with storageConfig(name, true), and their calls    *)
(* overlap: a call is suspended at each request it makes of the resolver  *)
(* (getLink, didClient.get, didClient.save), and the other caller may     *)
(* take a step meanwhile. Each didClient.get gives the call a document of *)
(* its own.                                                               *)
(***************************************************************************)
Callers == {"first", "second"}

\* a call that holds no document yet
NothingAdded == [doc |-> NoDocument, errors |-> <<>>, threw |-> FALSE]

\* the caller has no call in flight
Idle(c) == IF c \in DOMAIN calls THEN calls[c].at = "done" ELSE TRUE

\* the calls, with the call of caller c at a new place
CallAt(c, call) == (c :> call) @@ calls

\* linkStorage(storageConfig) is called: up to the didClient.get of setLink
BeginLinkStorage(c, contextName) ==
    /\ Idle(c)
    /\ calls' = CallAt(c, [at |-> "get", op |-> "linkStorage", name |-> contextName,
                           added |-> NothingAdded])
    /\ account' = ensureAuthenticated(account)
    /\ UNCHANGED <<doc, errors, published, failures, appContext, nextId, history, vault, last>>

\* storageConfig(contextName, true) is called: up to its getLink
BeginStorageConfig(c, contextName) ==
    /\ Idle(c)
    /\ calls' = CallAt(c, [at |-> "getLink", op |-> "storageConfig",
                           name |-> contextName, added |-> NothingAdded])
    /\ account' = ensureAuthenticated(account)
    /\ UNCHANGED <<doc, errors, published, failures, appContext, nextId, history, vault, last>>

\* the getLink of storageConfig resolves: the link found is returned, or
\* the config is generated and linkStorage is called
StorageConfigGot(c) ==
    /\ c \in DOMAIN calls
    /\ calls[c].at = "getLink"
    /\ IF getLink(published, DID, calls[c].name, TRUE) # <<>>
       THEN /\ calls' = CallAt(c, [calls[c] EXCEPT !.at = "done"])
            /\ last' = [Call("storageConfig", calls[c].name, NoEndpoints, NoKeyring,
                             TRUE, FALSE, NoDocument)
                           EXCEPT !.arg = "forceCreate",
                                  !.value = getLink(published, DID, calls[c].name, TRUE)]
       ELSE /\ calls' = CallAt(c, [calls[c] EXCEPT !.at = "get"])
            /\ UNCHANGED last
    /\ UNCHANGED <<doc, errors, published, failures, account, appContext, nextId, history, vault>>

\* the didClient.get of setLink resolves: the context is added to the
\* document it gave, and the document is signed and handed to didClient.save
LinkGot(c) ==
    /\ c \in DOMAIN calls
    /\ calls[c].at = "get"
    /\ calls' = CallAt(c, [calls[c] EXCEPT
                    !.at = "save",
                    !.added = addContext(setLinkDocument(published, DID, RootPrivateKey),
                                         <<>>, calls[c].name,
                                         accountKeyring(calls[c].name),
                                         EndpointsOf(defaultServices(account.accountConfig)))])
    /\ UNCHANGED <<doc, errors, published, failures, account, appContext, nextId, history, vault, last>>

\* the didClient.save of setLink resolves: the document of the call is the
\* published one, and the call returns
LinkSaved(c) ==
    /\ c \in DOMAIN calls
    /\ calls[c].at = "save"
    /\ published' = setLinkSave(published, calls[c].added, RootPrivateKey).store
    /\ calls' = CallAt(c, [calls[c] EXCEPT !.at = "done"])
    /\ last' = [Call(calls[c].op, calls[c].name, NoEndpoints, NoKeyring,
                     TRUE, FALSE, NoDocument)
                   EXCEPT !.arg = IF calls[c].op = "storageConfig" THEN "forceCreate"
                                  ELSE ""]
    /\ UNCHANGED <<doc, errors, failures, account, appContext, nextId, history, vault>>

NextConcurrentLink ==
    \/ \E c \in Callers, n \in ContextNames : BeginLinkStorage(c, n)
    \/ \E c \in Callers, n \in ContextNames : BeginStorageConfig(c, n)
    \/ \E c \in Callers : StorageConfigGot(c)
    \/ \E c \in Callers : LinkGot(c)
    \/ \E c \in Callers : LinkSaved(c)

SpecConcurrentLink == InitLink /\ [][NextConcurrentLink]_vars

(***************************************************************************)
(* SpecSession: one caller works through the operations of an AutoAccount *)
(* that need the root DID-client session: linkStorage and                 *)
(* storageConfig(name, true), suspended at each request they make of the  *)
(* resolver, and unlinkStorage, linkStorageContextService and             *)
(* getDidClient.                                                          *)
(***************************************************************************)
SessionCallers == {"first"}
SessionEndpointTypes == {"notification"}
SessionContextNames == {"App One"}

\* the service entries of the published document of the account's DID
PublishedServices ==
    IF didClientGet(published, DID) = <<>> THEN <<>>
    ELSE Entries(didClientGet(published, DID)[1], "service")

\* account.linkStorageContextService(contextName, endpointType, serverType,
\* endpointUri)
LinkStorageContextService(contextName, endpointType) ==
    /\ Len(PublishedServices) < MaxObjects
    /\ \E r \in {setContextService(published, DID, contextName, endpointType,
                                    "VeridaStorage", "https://storage.example")} :
          /\ published' = r.store
          /\ last' = Call("linkStorageContextService", contextName, NoEndpoints,
                          NoKeyring, ~r.threw, r.threw, NoDocument)
    /\ account' = ensureAuthenticated(account)
    /\ UNCHANGED <<doc, errors, failures, appContext, nextId, history, vault, calls>>

\* account.getDidClient()
GetDidClient ==
    /\ account' = ensureAuthenticated(account)
    /\ last' = Call("getDidClient", "", NoEndpoints, NoKeyring, TRUE, FALSE, NoDocument)
    /\ UNCHANGED <<doc, errors, published, failures, appContext, nextId, history, vault, calls>>

NextSession ==
    \/ \E c \in SessionCallers, n \in SessionContextNames : BeginLinkStorage(c, n)
    \/ \E c \in SessionCallers, n \in SessionContextNames : BeginStorageConfig(c, n)
    \/ \E c \in SessionCallers : StorageConfigGot(c)
    \/ \E c \in SessionCallers : LinkGot(c)
    \/ \E c \in SessionCallers : LinkSaved(c)
    \/ \E n \in SessionContextNames : UnlinkStorage(n)
    \/ \E n \in SessionContextNames, t \in SessionEndpointTypes :
          LinkStorageContextService(n, t)
    \/ GetDidClient

SpecSession == InitLink /\ [][NextSession]_vars

(***************************************************************************)
(* SpecConcurrentDocument: two callers work on one DIDDocument instance.  *)
(* addContext is suspended at `await keyring.getKeys()`, between the      *)
(* service entries and the key entries it appends; removeContext is       *)
(* synchronous and runs whenever it is called.                            *)
(***************************************************************************)
DocumentKeyrings == {KeyringOf("k1"), KeyringOf("k2")}
DocumentEndpointSets == {EndpointsBasic}
DocumentNames == {"App One"}

\* addContext(contextName, keyring, endpoints) is called: removeContext and
\* the service entries, up to the await of keyring.getKeys()
BeginAddContext(c, contextName, keyring, endpoints) ==
    /\ Idle(c)
    /\ \E r \in {addContextServices(doc, errors, contextName, endpoints)} :
          /\ doc' = r.doc
          /\ errors' = r.errors
          /\ IF r.threw
             THEN /\ calls' = CallAt(c, [at |-> "done", op |-> "addContext",
                                         name |-> contextName, keyring |-> keyring,
                                         endpoints |-> endpoints])
                  /\ last' = Call("addContext", contextName, endpoints, keyring,
                                  FALSE, TRUE, doc)
             ELSE /\ calls' = CallAt(c, [at |-> "getKeys", op |-> "addContext",
                                         name |-> contextName, keyring |-> keyring,
                                         endpoints |-> endpoints])
                  /\ UNCHANGED last
    /\ UNCHANGED <<published, failures, account, appContext, nextId, history, vault>>

\* keyring.getKeys() resolves: the key entries are appended to the document
\* as it is by then, and addContext returns; or getKeys rejects
KeysResolved(c) ==
    /\ c \in DOMAIN calls
    /\ calls[c].at = "getKeys"
    /\ doc' = IF calls[c].keyring.rejects THEN doc
              ELSE addContextKeys(doc, calls[c].name, calls[c].keyring)
    /\ calls' = CallAt(c, [calls[c] EXCEPT !.at = "done"])
    /\ last' = Call("addContext", calls[c].name, calls[c].endpoints, calls[c].keyring,
                    ~calls[c].keyring.rejects, calls[c].keyring.rejects, doc)
    /\ UNCHANGED <<errors, published, failures, account, appContext, nextId, history, vault>>

\* export(): the document as it is
Export ==
    /\ last' = Lookup("export", "", "", TRUE, FALSE, <<doc>>)
    /\ UNCHANGED <<doc, errors, published, failures, account, appContext, nextId,
                   history, vault, calls>>

NextConcurrentDocument ==
    \/ \E c \in Callers, n \in DocumentNames, k \in DocumentKeyrings,
          e \in DocumentEndpointSets : BeginAddContext(c, n, k, e)
    \/ \E c \in Callers : KeysResolved(c)
    \/ \E n \in DocumentNames : RemoveContext(n)

SpecConcurrentDocument == Init /\ [][NextConcurrentDocument]_vars

(***************************************************************************)
(* SpecSuspendedDocument: one caller adds and removes contexts of one     *)
(* DIDDocument instance, and signProof and export, which are synchronous, *)
(* run whenever they are called, also while addContext is suspended.      *)
(***************************************************************************)
NextSuspendedDocument ==
    \/ \E c \in SessionCallers, n \in ContextNames, k \in ProofKeyrings,
          e \in DocumentEndpointSets : BeginAddContext(c, n, k, e)
    \/ \E c \in SessionCallers : KeysResolved(c)
    \/ \E n \in ContextNames : RemoveContext(n)
    \/ SignProof(RootPrivateKey)
    \/ Export

SpecSuspendedDocument == Init /\ [][NextSuspendedDocument]_vars

(***************************************************************************)
(* SpecConcurrentContext: two callers of one Context, which has the       *)
(* account, call getMessaging and openDatabase, and their calls overlap:  *)
(* a call is suspended where the code awaits (the context config, the     *)
(* connectAccount of the engine it has constructed), and the other caller *)
(* may take a step meanwhile.                                             *)
(***************************************************************************)
OpenDIDs == {DID, OtherDID, LegacyDID}

\* a call of the Context in flight or done: where it is, what it is for,
\* the engine it has constructed, and the error or value it ended with
ContextCallAt(at, op, did, engine, error, value) ==
    [ at |-> at, op |-> op, did |-> did, engine |-> engine,
      error |-> error, value |-> value ]

\* getMessaging() is called: the cached engine is returned, or the call
\* fails without an account, or it awaits the context config
BeginGetMessaging(c) ==
    /\ Idle(c)
    /\ calls' = CallAt(c,
          IF appContext.messagingEngine # <<>>
          THEN ContextCallAt("done", "getMessaging", DID, <<>>, "",
                             appContext.messagingEngine)
          ELSE IF appContext.account = <<>>
          THEN ContextCallAt("done", "getMessaging", DID, <<>>,
                             "Unable to open messaging. No authenticated user.", <<>>)
          ELSE ContextCallAt("config", "getMessaging", DID, <<>>, "", <<>>))
    /\ UNCHANGED <<doc, errors, published, failures, account, appContext, nextId, history, vault, last>>

\* the context config of getMessaging resolves: the engine is constructed
\* with the notification service and kept, and its connectAccount awaited
MessagingConfigured(c) ==
    /\ c \in DOMAIN calls
    /\ calls[c].at = "config"
    /\ calls[c].op = "getMessaging"
    /\ \E r \in {messagingOfConfig(nextId,
                     getContextConfig(appContext, published, account, <<DID>>, TRUE))} :
          /\ nextId + r.constructed <= MaxObjects + 1
          /\ appContext' = r.ctx
          /\ published' = r.store
          /\ account' = r.account
          /\ nextId' = nextId + r.constructed
          /\ calls' = CallAt(c,
                IF r.error # ""
                THEN ContextCallAt("done", "getMessaging", DID, <<>>, r.error, <<>>)
                ELSE ContextCallAt("connect", "getMessaging", DID, r.value, "", <<>>))
    /\ UNCHANGED <<doc, errors, failures, history, vault, last>>

\* the connectAccount of the messaging engine resolves: the engine the
\* Context holds now is returned
MessagingConnected(c) ==
    /\ c \in DOMAIN calls
    /\ calls[c].at = "connect"
    /\ calls[c].op = "getMessaging"
    /\ calls' = CallAt(c, [calls[c] EXCEPT !.at = "done",
                                           !.value = appContext.messagingEngine])
    /\ last' = Outcome("getMessaging", appContext.contextName, <<>>, "",
                       appContext.messagingEngine, {"messaging.connectAccount"})
    /\ UNCHANGED <<doc, errors, published, failures, account, appContext, nextId, history, vault>>

\* openDatabase(name, {did}) is called, up to the first await of its
\* getDatabaseEngine: the cached engine of the DID opens the database, or
\* the call awaits the context config
BeginOpenDatabase(c, did) ==
    /\ Idle(c)
    /\ calls' = CallAt(c,
          IF appContext.account = <<>>
          THEN ContextCallAt("done", "openDatabase", did, <<>>,
                             "Unable to open database. No authenticated user.", <<>>)
          ELSE IF Has(appContext.databaseEngines, did)
          THEN ContextCallAt("done", "openDatabase", did, <<>>, "",
                             <<appContext.databaseEngines[did]>>)
          ELSE ContextCallAt("config", "openDatabase", did, <<>>, "", <<>>))
    /\ UNCHANGED <<doc, errors, published, failures, account, appContext, nextId, history, vault, last>>

\* the context config of getDatabaseEngine resolves: the engine is
\* constructed and its connectAccount awaited; the cache is not written yet
EngineConfigured(c) ==
    /\ c \in DOMAIN calls
    /\ calls[c].at = "config"
    /\ calls[c].op = "openDatabase"
    /\ \E r \in {databaseEngineOfConfig(calls[c].did, nextId,
                     getContextConfig(appContext, published, account,
                                      <<calls[c].did>>, TRUE))} :
          /\ nextId + r.constructed <= MaxObjects + 1
          /\ published' = r.store
          /\ account' = r.account
          /\ nextId' = nextId + r.constructed
          /\ calls' = CallAt(c,
                IF r.error # ""
                THEN ContextCallAt("done", "openDatabase", calls[c].did, <<>>,
                                   r.error, <<>>)
                ELSE ContextCallAt("connect", "openDatabase", calls[c].did, r.value,
                                   "", <<>>))
    /\ UNCHANGED <<doc, errors, failures, appContext, history, vault, last>>

\* the connectAccount of the database engine resolves: the engine is
\* written into the cache under the DID and is the one the call uses
EngineConnected(c) ==
    /\ c \in DOMAIN calls
    /\ calls[c].at = "connect"
    /\ calls[c].op = "openDatabase"
    /\ appContext' = [appContext EXCEPT !.databaseEngines =
                         SetField(@, calls[c].did, calls[c].engine[1])]
    /\ calls' = CallAt(c, [calls[c] EXCEPT !.at = "done", !.value = calls[c].engine])
    /\ last' = Outcome("openDatabase", appContext.contextName, <<calls[c].did>>, "",
                       calls[c].engine, {"connectAccount", "engine.openDatabase", "saveDb"})
    /\ UNCHANGED <<doc, errors, published, failures, account, nextId, history, vault>>

InitConcurrentContext ==
    /\ doc = NewDIDDocument(DID, PublicKeyOf(RootPrivateKey))
    /\ errors = <<>>
    /\ published = PublishedByOthers
    /\ failures = 0
    /\ account \in {NewAutoAccount(c) : c \in AccountConfigs}
    /\ appContext = NewContext(ContextName, <<DID>>)
    /\ nextId = 1
    /\ history = NoHistory
    /\ vault = NoVault
    /\ calls = NoCalls
    /\ last = Outcome("constructor", ContextName, TRUE, "", <<>>, {})

NextConcurrentContext ==
    \/ \E c \in Callers : BeginGetMessaging(c)
    \/ \E c \in Callers : MessagingConfigured(c)
    \/ \E c \in Callers : MessagingConnected(c)
    \/ \E c \in Callers, did \in OpenDIDs : BeginOpenDatabase(c, did)
    \/ \E c \in Callers : EngineConfigured(c)
    \/ \E c \in Callers : EngineConnected(c)

SpecConcurrentContext == InitConcurrentContext /\ [][NextConcurrentContext]_vars

(***************************************************************************)
(* SpecConnect: the overlapping calls of SpecConcurrentContext, with a     *)
(* connectAccount that may reject: the rejection is the outcome of the     *)
(* call that awaits it.                                                    *)
(***************************************************************************)
ConnectDIDs == {DID, OtherDID}

\* the connectAccount of the messaging engine rejects: getMessaging rejects
\* with it
MessagingConnectFailed(c) ==
    /\ c \in DOMAIN calls
    /\ calls[c].at = "connect"
    /\ calls[c].op = "getMessaging"
    /\ calls' = CallAt(c, [calls[c] EXCEPT !.at = "done",
                                           !.error = "connectAccount rejected"])
    /\ last' = Outcome("getMessaging", appContext.contextName, <<>>,
                       "connectAccount rejected", <<>>, {"messaging.connectAccount"})
    /\ UNCHANGED <<doc, errors, published, failures, account, appContext, nextId,
                   history, vault>>

\* the connectAccount of the database engine rejects: the open rejects with
\* it before the cache is written
EngineConnectFailed(c) ==
    /\ c \in DOMAIN calls
    /\ calls[c].at = "connect"
    /\ calls[c].op = "openDatabase"
    /\ calls' = CallAt(c, [calls[c] EXCEPT !.at = "done",
                                           !.error = "connectAccount rejected"])
    /\ last' = Outcome("openDatabase", appContext.contextName, <<calls[c].did>>,
                       "connectAccount rejected", <<>>, {"connectAccount"})
    /\ UNCHANGED <<doc, errors, published, failures, account, appContext, nextId,
                   history, vault>>

NextConnect ==
    \/ \E c \in Callers : BeginGetMessaging(c)
    \/ \E c \in Callers : MessagingConfigured(c)
    \/ \E c \in Callers : MessagingConnected(c)
    \/ \E c \in Callers : MessagingConnectFailed(c)
    \/ \E c \in Callers, did \in ConnectDIDs : BeginOpenDatabase(c, did)
    \/ \E c \in Callers : EngineConfigured(c)
    \/ \E c \in Callers : EngineConnected(c)
    \/ \E c \in Callers : EngineConnectFailed(c)

SpecConnect == InitConcurrentContext /\ [][NextConnect]_vars

(***************************************************************************)
(* SpecExternalContext: a client with one Context for the account, on     *)
(* which two callers open databases of DIDs, their calls suspended at the *)
(* awaits of getDatabaseEngine, and on which external databases are       *)
(* opened, of this context name and of another.                           *)
(***************************************************************************)
OtherContextName == "App Two"
ExternalContextNames == {OtherContextName}
ExternalOpenDIDs == {DID, OtherDID}
DelegatedDIDs == {OtherDID}

\* the documents published: the other DID has linked both context names
PublishedForContexts ==
    setLink(setLink([d \in {} |-> NoDocument], OtherDID,
                    SecureContextConfig(ContextName, KeyringOf("k1"),
                                        defaultServices(AccountConfigFull)),
                    KeyringOf("k1"), OtherPrivateKey).store,
            OtherDID,
            SecureContextConfig(OtherContextName, KeyringOf("k2"),
                                defaultServices(AccountConfigBasic)),
            KeyringOf("k2"), OtherPrivateKey).store

OpenExternalDatabaseOfContext(databaseName, did, contextName) ==
    \E r \in {openExternalDatabaseOfContext(appContext, published, account,
                                            databaseName, did, contextName, nextId)} :
        ContextCall(r, "openExternalDatabase", <<did, contextName>>)

InitExternalContext ==
    /\ doc = NewDIDDocument(DID, PublicKeyOf(RootPrivateKey))
    /\ errors = <<>>
    /\ published = PublishedForContexts
    /\ failures = 0
    /\ account = NewAutoAccount(AccountConfigBasic)
    /\ appContext = SetField(NewContext(ContextName, <<DID>>), "client",
                             [contexts |-> <<>>])
    /\ nextId = 1
    /\ history = NoHistory
    /\ vault = NoVault
    /\ calls = NoCalls
    /\ last = Outcome("constructor", ContextName, TRUE, "", <<>>, {})

NextExternalContext ==
    \/ \E c \in Callers, did \in ExternalOpenDIDs : BeginOpenDatabase(c, did)
    \/ \E c \in Callers : EngineConfigured(c)
    \/ \E c \in Callers : EngineConnected(c)
    \/ \E n \in DatabaseNames, did \in DelegatedDIDs : OpenExternalDatabase(n, did)
    \/ \E n \in DatabaseNames, did \in DelegatedDIDs, cn \in ExternalContextNames :
          OpenExternalDatabaseOfContext(n, did, cn)

SpecExternalContext == InitExternalContext /\ [][NextExternalContext]_vars

(***************************************************************************)
(* Vocabulary of the properties.                                           *)
(***************************************************************************)
Collections == {"verificationMethod", "assertionMethod", "keyAgreement", "service"}

\* the four collections of a document, each present or absent as in it
FourCollections(d) == [k \in Collections \cap DOMAIN d |-> d[k]]

VmCount(d, h, fragment) ==
    Count(Entries(d, "verificationMethod"),
          LAMBDA e : e.id = contextEntryId(d.id, h, fragment))

RefCount(d, k, h, fragment) ==
    Count(Entries(d, k), LAMBDA e : e = contextEntryId(d.id, h, fragment))

ServiceCount(d, h, endpointType) ==
    Count(Entries(d, "service"),
          LAMBDA e : e.id = contextEntryId(d.id, h, endpointType))

\* no entry of any of the four collections refers to context hash h
NoRecords(d, h) ==
    /\ \A f \in KeyFragments : VmCount(d, h, f) = 0
    /\ RefCount(d, "assertionMethod", h, "sign") = 0
    /\ RefCount(d, "keyAgreement", h, "asym") = 0
    /\ \A t \in EndpointTypes : ServiceCount(d, h, t) = 0

\* context hash h has exactly one complete record set
OneRecordSet(d, h) ==
    /\ \A f \in KeyFragments : VmCount(d, h, f) = 1
    /\ RefCount(d, "assertionMethod", h, "sign") = 1
    /\ RefCount(d, "keyAgreement", h, "asym") = 1
    /\ ServiceCount(d, h, "database") = 1
    /\ ServiceCount(d, h, "messaging") = 1
    /\ ServiceCount(d, h, "storage") <= 1
    /\ ServiceCount(d, h, "notification") <= 1

HashOf(d, contextName) == generateContextHash(d.id, contextName)

AddCompleted(c) == c.op = "addContext" /\ ~c.threw

\* the service entry addContext is to publish for one endpoint type
ExpectedService(d, contextName, endpoints, t) ==
    [ id |-> d.id \o "?context=" \o HashOf(d, contextName) \o "#" \o t,
      type |-> endpoints[t].type,
      serviceEndpoint |-> endpoints[t].endpointUri ]

(***************************************************************************)
(* C1. After any sequence of completed addContext and removeContext calls, *)
(* every context hash is either absent from all four collections or has    *)
(* exactly two verification methods (#sign, #asym), one assertionMethod    *)
(* entry, one keyAgreement entry and two to four service entries, one per  *)
(* endpoint type.                                                          *)
(***************************************************************************)
C1_RecordSetsWhole ==
    (last.op \in {"addContext", "removeContext"} /\ ~last.threw) =>
        \A n \in ContextNames :
            NoRecords(doc, HashOf(doc, n)) \/ OneRecordSet(doc, HashOf(doc, n))

(***************************************************************************)
(* C2. addContext fully applies or fully no-ops: a call that fails leaves  *)
(* the four collections exactly as they were before it, and no context is  *)
(* left with service entries but no key entries.                           *)
(***************************************************************************)
C2_AddContextAtomic ==
    /\ (last.op = "addContext" /\ last.threw)
          => FourCollections(doc) = FourCollections(last.pre)
    /\ \A n \in ContextNames :
          (\E t \in EndpointTypes : ServiceCount(doc, HashOf(doc, n), t) > 0)
             => \A f \in KeyFragments : VmCount(doc, HashOf(doc, n), f) > 0

(***************************************************************************)
(* C3. On a document that holds no records for context X, addContext(X)    *)
(* followed by removeContext(X) leaves the four collections equal to their *)
(* values before the add.                                                  *)
(***************************************************************************)
C3_AddRemoveRoundTrip ==
    [][ ( /\ AddCompleted(last)
          /\ NoRecords(last.pre, HashOf(last.pre, last.name))
          /\ last'.op = "removeContext"
          /\ last'.name = last.name )
        => FourCollections(doc') = FourCollections(last.pre) ]_vars

(***************************************************************************)
(* C4. Whenever removeContext(X) returns true, no entry of the four        *)
(* collections refers to the context hash of X afterwards.                 *)
(***************************************************************************)
C4_RemoveLeavesNoResidue ==
    (last.op = "removeContext" /\ last.ret)
        => NoRecords(doc, HashOf(doc, last.name))

\* removeContext has returned true on a document that held X's service
\* entries twice over
C4_Witness ==
    /\ last.op = "removeContext"
    /\ last.ret
    /\ ServiceCount(last.pre, HashOf(last.pre, last.name), "database") = 2

(***************************************************************************)
(* C5. removeContext(X) on a document with no verification methods at all, *)
(* or with none whose id matches X's context id, returns false, records an *)
(* error and leaves the whole document unchanged; unlink of a never-linked *)
(* name returns that false without raising and signs and publishes         *)
(* nothing.                                                                *)
(***************************************************************************)
C5_RemoveOfUnknownContext ==
    [][ /\ ( /\ last'.op = "removeContext"
             /\ ~Has(doc, "verificationMethod") )
           => /\ ~last'.ret /\ ~last'.threw
              /\ errors' = <<"No verification method specified">>
              /\ doc' = doc
        /\ ( /\ last'.op = "removeContext"
             /\ Has(doc, "verificationMethod")
             /\ \A f \in KeyFragments \cup EndpointTypes :
                    VmCount(doc, HashOf(doc, last'.name), f) = 0 )
           => /\ ~last'.ret /\ ~last'.threw
              /\ errors' = <<"Unable to locate verification method for this context">>
              /\ doc' = doc
        /\ ( /\ last'.op = "unlinkStorage"
             /\ \/ didClientGet(published, DID) = <<>>
                \/ NoRecords(didClientGet(published, DID)[1],
                             generateContextHash(DID, last'.name)) )
           => /\ ~last'.ret /\ ~last'.threw
              /\ published' = published ]_vars

\* removeContext has recorded its error on a document without verification
\* methods, and unlinkStorage of a name that is not linked has returned
\* false on a DID that has another context linked
C5_Witness ==
    /\ last.op = "unlinkStorage"
    /\ ~last.ret
    /\ ~Has(doc, "verificationMethod")
    /\ errors = <<"No verification method specified">>
    /\ \E n \in ContextNames \ {last.name} : getLink(published, DID, n, TRUE) # <<>>

(***************************************************************************)
(* C6. Linking is idempotent: on every starting document, addContext       *)
(* applied twice with the same name, keyring and endpoints leaves the four *)
(* collections as applying it once does.                                   *)
(***************************************************************************)
C6_AddContextIdempotent ==
    [][ ( /\ AddCompleted(last)
          /\ AddCompleted(last')
          /\ last'.name = last.name
          /\ last'.keyring = last.keyring
          /\ last'.endpoints = last.endpoints )
        => FourCollections(doc') = FourCollections(doc) ]_vars

(***************************************************************************)
(* C7. After a completed addContext(name, keyring, endpoints),             *)
(* locateServiceEndpoint(name, type) returns, for each endpoint type that  *)
(* was supplied, the entry with the id <did>?context=<hash>#<type> and the *)
(* type and serviceEndpoint supplied in that addContext.                   *)
(***************************************************************************)
C7_LocateReturnsSupplied ==
    AddCompleted(last) =>
        \A t \in EndpointTypes \cap DOMAIN last.endpoints :
            locateServiceEndpoint(doc, last.name, t)
                = [ threw |-> FALSE,
                    value |-> <<ExpectedService(doc, last.name, last.endpoints, t)>> ]

(***************************************************************************)
(* C8. locateServiceEndpoint(name, type) returns undefined, without        *)
(* raising, whenever the document has no service entry for that context    *)
(* and type.                                                               *)
(***************************************************************************)
C8_LocateAbsentIsUndefined ==
    ( /\ last.op = "locateServiceEndpoint"
      /\ ServiceCount(doc, HashOf(doc, last.name), last.arg) = 0 )
        => (~last.threw /\ last.value = <<>>)

(***************************************************************************)
(* C9. Immediately after signProof with the root key verifyProof returns   *)
(* true; after any later change to a field other than proof verifyProof    *)
(* returns false until signProof is called again; verifyProof returns      *)
(* false when no proof was ever set.                                       *)
(***************************************************************************)
C9_ChangeInvalidatesUntilResigned ==
    [][ /\ (last'.op = "signProof" /\ last'.arg = RootPrivateKey) => verifyProof(doc')
        /\ ~Has(doc', "proof") => ~verifyProof(doc')
        /\ ( /\ Has(doc, "proof")
             /\ last'.op # "signProof"
             /\ getProofData(doc') # getProofData(doc) )
           => ~verifyProof(doc') ]_vars

(***************************************************************************)
(* C9, as amended. Immediately after signProof with the root key           *)
(* verifyProof returns true; it returns false when no proof was ever set;  *)
(* and with a proof set it returns true exactly while the fields other     *)
(* than proof equal those the root key signed: a change makes it false, a  *)
(* later change that restores the signed fields makes it true again        *)
(* without signProof being called.                                         *)
(***************************************************************************)
C9_ProofBindsSignedFields ==
    /\ (last.op = "signProof" /\ last.arg = RootPrivateKey) => verifyProof(doc)
    /\ ~Has(doc, "proof") => ~verifyProof(doc)
    /\ Has(doc, "proof") =>
          ( verifyProof(doc) <=>
              /\ DeleteField(doc, "proof") = doc.proof.proofValue.data
              /\ doc.proof.proofValue.key = RootPrivateKey )

\* a removeContext that returned true has given back the fields that were
\* signed: the proof verifies again
C9_Witness ==
    /\ last.op = "removeContext"
    /\ last.ret
    /\ verifyProof(doc)

C11_UnlinkedUntilLinked ==
    [][ /\ (last'.op = "unlinkStorage" /\ last'.ret)
           => /\ published' # published
              /\ verifyProof(didClientGet(published', DID)[1])
              /\ getLink(published', DID, last'.name, TRUE) = <<>>
        /\ \A n \in ContextNames :
              ( /\ getLink(published, DID, n, TRUE) = <<>>
                /\ getLink(published', DID, n, TRUE) # <<>> )
              => /\ last'.name = n
                 /\ last'.op \in {"setLink", "linkStorage", "storageConfig"} ]_vars

\* unlinkStorage has returned true for one context while the other one
\* stays linked in the republished document
C11_Witness ==
    /\ last.op = "unlinkStorage"
    /\ last.ret
    /\ getLink(published, DID, last.name, TRUE) = <<>>
    /\ \E n \in ContextNames \ {last.name} : getLink(published, DID, n, TRUE) # <<>>

(***************************************************************************)
(* C12. On one account, getAuthContext(name, cfg) called again without     *)
(* force returns the same cached instance as the previous call for that    *)
(* name and creates no new handler; called with force: true it creates a   *)
(* new handler and AuthContext that replace the cached ones.               *)
(***************************************************************************)
C12_AuthContextCached ==
    [][ last'.op = "getAuthContext" =>
          /\ ( /\ ~last'.arg.force
               /\ Has(account.contextAuths, last'.name)
               /\ account.contextAuths[last'.name].authContext # <<>> )
             => /\ last'.error = ""
                /\ last'.value = account.contextAuths[last'.name].authContext
                /\ "newHandler" \notin last'.effects
                /\ account' = account
          /\ (last'.arg.force /\ last'.error = "")
             => /\ "newHandler" \in last'.effects
                /\ account'.contextAuths[last'.name].id >= nextId
                /\ last'.value[1].id >= nextId
                /\ account'.contextAuths[last'.name].authContext = last'.value ]_vars

\* the AuthContext of a handler that replaced an earlier one has been
\* returned from the cache
C12_Witness ==
    /\ last.op = "getAuthContext"
    /\ ~last.arg.force
    /\ last.effects = {}
    /\ last.value # <<>>
    /\ DOMAIN account.contextAuths = {last.name}
    /\ account.contextAuths[last.name].id >= 3

(***************************************************************************)
(* C13. getAuthContext for an uncached name, or with force, whose config's *)
(* services.databaseServer.type has no registered handler fails with       *)
(* UnknownAuthContextType and leaves the auth cache exactly as it was: no  *)
(* entry is created for the name, and an existing entry is kept.           *)
(***************************************************************************)
C13_UnknownAuthTypeLeavesCache ==
    [][ ( /\ last'.op = "getAuthContext"
          /\ ~Has(account.contextAuths, last'.name) \/ last'.arg.force
          /\ last'.arg.contextConfig.services.databaseServer.type # "VeridaDatabase" )
        => /\ last'.error = "Unknown auth context type (database)"
           /\ last'.effects = {}
           /\ account'.contextAuths = account.contextAuths ]_vars

\* a forced getAuthContext with an unsupported type has failed on a name
\* that has a handler holding an AuthContext
C13_Witness ==
    /\ last.op = "getAuthContext"
    /\ last.arg.force
    /\ last.error = "Unknown auth context type (database)"
    /\ Has(account.contextAuths, last.name)
    /\ account.contextAuths[last.name].authContext # <<>>

(***************************************************************************)
(* C14. disconnectDevice(name, deviceId) fails with ContextNotConnected in *)
(* every state in which no getAuthContext for that name has succeeded      *)
(* before (including after a getAuthContext that failed); otherwise it     *)
(* delegates to the handler cached for name, returns its result, and       *)
(* leaves the cache unchanged.                                             *)
(***************************************************************************)
C14_DisconnectNeedsAuthContext ==
    [][ last'.op = "disconnectDevice" =>
          IF last'.name \notin history.authSucceeded
          THEN /\ last'.error = "Context not connected " \o last'.name
               /\ last'.effects = {}
          ELSE /\ last'.error = ""
               /\ last'.effects = {"disconnectDevice"}
               /\ account' = account ]_vars

\* the did a completed open was for: the account's own when it was left out
CallDid(c) == IF c.arg = <<>> THEN DID ELSE c.arg[1]

\* the published link of a DID for the context name names a database
\* server type no engine is registered for
UnregisteredDatabaseType(store, did) ==
    /\ getLink(store, did, ContextName, TRUE) # <<>>
    /\ getLink(store, did, ContextName, TRUE)[1].services.databaseServer.type
           \notin DATABASE_ENGINES

\* the calls an operation makes on an engine or on the database registry
EngineCalls ==
    {"newDatabaseEngine", "connectAccount", "engine.openDatabase", "saveDb"}

NotAuthenticatedErrors ==
    { "No DID specified and no authenticated user",
      "Unable to open database. No authenticated user.",
      "Unable to open datastore. No authenticated user.",
      "Unable to open messaging. No authenticated user.",
      "Unable to open notification. No authenticated user." }

\* the operations that need an account; getContextConfig needs it when the
\* did is left out
NeedsAccount(c) ==
    \/ c.op \in {"openDatabase", "openDatastore", "getMessaging", "getNotification"}
    \/ c.op = "getContextConfig" /\ c.arg = <<>>

(***************************************************************************)
(* C16. Whenever the Context has no bound account (it was opened without  *)
(* one, or disconnect has let it go), getContextConfig without a did,     *)
(* openDatabase, openDatastore, getMessaging and getNotification each     *)
(* fail with a not-authenticated error, having made no call on the        *)
(* resolver or on an engine and having changed nothing.                   *)
(***************************************************************************)
C16_NoAccountNotAuthenticated ==
    [][ (appContext.account = <<>> /\ NeedsAccount(last'))
        => ( /\ last'.threw
             /\ last'.error \in NotAuthenticatedErrors
             /\ last'.effects = {}
             /\ appContext' = appContext
             /\ published' = published ) ]_vars

\* the response outbox.send resolved to in a completed send
OutboxResponse(c) ==
    IF c.arg.outbox = "null" THEN <<>> ELSE <<[response |-> "sent"]>>

(***************************************************************************)
(* C17. A send whose outbox send succeeded returns the response of the    *)
(* outbox, whatever the ping of the notification service does: a ping     *)
(* that fails does not make the send fail.                                *)
(***************************************************************************)
C17_PingFailureDoesNotFailSend ==
    ( /\ last.op = "send"
      /\ "outbox.send" \in last.effects
      /\ last.arg.outbox # "rejects" )
    => (last.ret /\ last.value = OutboxResponse(last))

\* the context config of the account, as a lookup without forceCreate gives
\* it, has no notificationServer (or there is no config at all)
NoNotificationServer(store) ==
    \/ getLink(store, DID, ContextName, TRUE) = <<>>
    \/ ~Has(getLink(store, DID, ContextName, TRUE)[1].services, "notificationServer")

(***************************************************************************)
(* C18. With an account bound whose context config has no                 *)
(* notificationServer, getNotification returns undefined without raising  *)
(* and leaves the Context as it was, nothing cached; getMessaging then    *)
(* builds the messaging engine without a notification service and caches  *)
(* no notification engine; and a send of an engine without a notification *)
(* service makes no ping.                                                 *)
(***************************************************************************)
C18_NoNotificationServer ==
    [][ /\ ( /\ last'.op = "getNotification"
             /\ appContext.account # <<>>
             /\ appContext.notificationEngine = <<>>
             /\ NoNotificationServer(published) )
           => ( /\ last'.ret
                /\ last'.value = <<>>
                /\ appContext' = appContext
                /\ nextId' = nextId )
        /\ ( /\ last'.op = "getMessaging"
             /\ appContext.account # <<>>
             /\ appContext.messagingEngine = <<>>
             /\ appContext.notificationEngine = <<>>
             /\ NoNotificationServer(published') )
           => ( /\ last'.ret
                /\ appContext'.messagingEngine # <<>>
                /\ appContext'.messagingEngine[1].notificationService = <<>>
                /\ last'.value = appContext'.messagingEngine
                /\ appContext'.notificationEngine = <<>>
                /\ "newNotificationEngine" \notin last'.effects )
        /\ ( /\ last'.op = "send"
             /\ appContext.messagingEngine[1].notificationService = <<>> )
           => "ping" \notin last'.effects ]_vars

C18_Witness ==
    /\ last.op = "send"
    /\ last.arg.outbox = "sent"
    /\ last.arg.ping = "rejects"
    /\ last.ret
    /\ last.value = <<[response |-> "sent"]>>
    /\ appContext.account # <<>>
    /\ appContext.messagingEngine[1].notificationService = <<>>
    /\ appContext.notificationEngine = <<>>
    /\ NoNotificationServer(published)
    /\ getLink(published, DID, ContextName, TRUE) # <<>>

(***************************************************************************)
(* C19. disconnect on a Context with an account bound calls               *)
(* account.disconnect, unbinds the account and returns true; on a Context *)
(* without an account it returns false and calls nothing. Nothing but the *)
(* account binding changes: the engines that are cached, those of other   *)
(* DIDs included, stay cached and are as they were.                       *)
(***************************************************************************)
C19_DisconnectUnbindsOnly ==
    [][ last'.op = "disconnect"
        => /\ IF appContext.account # <<>>
              THEN /\ last'.ret
                   /\ last'.value = <<[returned |-> TRUE]>>
                   /\ last'.effects = {"account.disconnect"}
                   /\ appContext' = [appContext EXCEPT !.account = <<>>]
              ELSE /\ last'.ret
                   /\ last'.value = <<[returned |-> FALSE]>>
                   /\ last'.effects = {}
                   /\ appContext' = appContext
           /\ appContext'.databaseEngines = appContext.databaseEngines
           /\ appContext'.messagingEngine = appContext.messagingEngine
           /\ appContext'.notificationEngine = appContext.notificationEngine
           /\ UNCHANGED <<published, account, nextId>> ]_vars

C19_Witness ==
    /\ last.op = "disconnect"
    /\ last.value = <<[returned |-> TRUE]>>
    /\ appContext.account = <<>>
    /\ Has(appContext.databaseEngines, OtherDID)
    /\ Has(appContext.databaseEngines, DID)
    /\ appContext.messagingEngine # <<>>

\* the services a created config is to have: the two required defaults of
\* the account, and the storage and notification defaults it has
ServicesOfDefaults(accountConfig) ==
    [ t \in {"databaseServer", "messageServer"}
            \cup (IF "defaultStorageServer" \in DOMAIN accountConfig
                  THEN {"storageServer"} ELSE {})
            \cup (IF "defaultNotificationServer" \in DOMAIN accountConfig
                  THEN {"notificationServer"} ELSE {}) |->
        CASE t = "databaseServer" -> accountConfig.defaultDatabaseServer
          [] t = "messageServer" -> accountConfig.defaultMessageServer
          [] t = "storageServer" -> accountConfig.defaultStorageServer
          [] t = "notificationServer" -> accountConfig.defaultNotificationServer ]

(***************************************************************************)
(* C20. storageConfig(name) without forceCreate leaves the published      *)
(* documents as they are and returns what getLink finds, undefined for a  *)
(* context that is not linked. With forceCreate a link that is found is   *)
(* returned and nothing is published; when none is found a config is      *)
(* generated and linked, whose services are the database and message      *)
(* defaults of the account and the storage and notification defaults      *)
(* exactly when the account has them, and the links of the other names    *)
(* stay as they were.                                                      *)
(***************************************************************************)
C20_StorageConfigCreatesLazily ==
    [][ last'.op = "storageConfig"
        => IF last'.arg # "forceCreate" \/ getLink(published, DID, last'.name, TRUE) # <<>>
           THEN /\ published' = published
                /\ ~last'.threw
                /\ last'.value = getLink(published, DID, last'.name, TRUE)
           ELSE /\ ~last'.threw
                /\ last'.value # <<>>
                /\ last'.value[1].id = last'.name
                /\ last'.value[1].services = ServicesOfDefaults(account.accountConfig)
                /\ getLink(published', DID, last'.name, TRUE) # <<>>
                /\ getLink(published', DID, last'.name, TRUE)[1].services
                       = ServicesOfDefaults(account.accountConfig)
                /\ \A n \in ContextNames \ {last'.name} :
                       getLink(published', DID, n, TRUE) = getLink(published, DID, n, TRUE)
      ]_vars

\* storageConfig with forceCreate has returned the link found, which an
\* earlier setLink made with services other than the account's defaults
C20_Witness ==
    /\ last.op = "storageConfig"
    /\ last.arg = "forceCreate"
    /\ last.value # <<>>
    /\ last.value = getLink(published, DID, last.name, TRUE)
    /\ last.value[1].services # ServicesOfDefaults(account.accountConfig)
    /\ "defaultStorageServer" \in DOMAIN account.accountConfig

\* the context hash a caller's identifier stands for
HashNamed(x) == IF x \in ContextNames THEN generateContextHash(DID, x) ELSE x

\* the signature a completed verifyContextSignature was given is the one
\* the key of the context's #sign verification method verifies, on the
\* data it was given
ValidContextSignature(d, c) ==
    /\ c.value[1].data = "message"
    /\ \E i \in DOMAIN d.verificationMethod :
          /\ d.verificationMethod[i].id = contextEntryId(d.id, HashNamed(c.name), "sign")
          /\ d.verificationMethod[i].publicKeyHex
                 = PublicKeyOf(SignPrivateKey(c.value[1].signer))

(***************************************************************************)
(* C21. removeContext, locateServiceEndpoint and verifyContextSignature   *)
(* find a linked context when they are given its name and when they are   *)
(* given its precomputed hash (verifyContextSignature being told which of *)
(* the two it is given): removeContext returns true and removes the       *)
(* records, locateServiceEndpoint returns the service entry, and          *)
(* verifyContextSignature accepts a valid signature.                      *)
(***************************************************************************)
C21_NameOrHashAccepted ==
    [][ /\ ( /\ last'.op = "removeContext"
             /\ OneRecordSet(doc, HashNamed(last'.name)) )
           => ( /\ last'.ret
                /\ NoRecords(doc', HashNamed(last'.name)) )
        /\ ( /\ last'.op = "locateServiceEndpoint"
             /\ ServiceCount(doc, HashNamed(last'.name), last'.arg) = 1 )
           => ( /\ ~last'.threw
                /\ last'.value # <<>>
                /\ last'.value[1].id
                       = contextEntryId(doc.id, HashNamed(last'.name), last'.arg) )
        /\ ( /\ last'.op = "verifyContextSignature"
             /\ (last'.arg = "contextIsHash") = (last'.name \in ContextHashes)
             /\ VmCount(doc, HashNamed(last'.name), "sign") = 1
             /\ ValidContextSignature(doc, last') )
           => last'.ret ]_vars

(***************************************************************************)
(* C22. verifyContextSignature (told whether it is given a name or a      *)
(* hash) returns false, without raising, for every data and signature     *)
(* while the document has no #sign verification method of the context:    *)
(* for a context never added and for one that removeContext has removed.  *)
(* Otherwise it returns true exactly when the signature is that of the    *)
(* data under the #sign key of the context, which is the key of the       *)
(* addContext completed last for it: a completed addContext leaves one    *)
(* #sign verification method of the context, with the key of its keyring. *)
(***************************************************************************)
C22_ContextSignatureVerified ==
    [][ /\ ( /\ last'.op = "verifyContextSignature"
             /\ (last'.arg = "contextIsHash") = (last'.name \in ContextHashes) )
           => IF VmCount(doc, HashNamed(last'.name), "sign") = 0
              THEN ~last'.threw /\ ~last'.ret
              ELSE ~last'.threw /\ (last'.ret <=> ValidContextSignature(doc, last'))
        /\ (last'.op = "removeContext" /\ last'.ret)
           => VmCount(doc', HashNamed(last'.name), "sign") = 0
        /\ AddCompleted(last')
           => /\ VmCount(doc', HashNamed(last'.name), "sign") = 1
              /\ \E i \in DOMAIN doc'.verificationMethod :
                    /\ doc'.verificationMethod[i].id
                           = contextEntryId(doc'.id, HashNamed(last'.name), "sign")
                    /\ doc'.verificationMethod[i].publicKeyHex
                           = last'.keyring.signPublicKeyHex ]_vars

(***************************************************************************)
(* C23. DIDs that differ only in letter case are one identity: they give  *)
(* the same document id and the same context hash, and a Context caches   *)
(* one database engine for them, not one for each spelling.               *)
(***************************************************************************)
C23_CaseInsensitiveIdentity ==
    /\ NewDIDDocument(UpperCaseDID, PublicKeyOf(RootPrivateKey)).id
           = NewDIDDocument(DID, PublicKeyOf(RootPrivateKey)).id
    /\ \A n \in ContextNames :
           generateContextHash(UpperCaseDID, n) = generateContextHash(DID, n)
    /\ \A d1, d2 \in DOMAIN appContext.databaseEngines :
           ToLowerCase(d1) = ToLowerCase(d2) => d1 = d2

(***************************************************************************)
(* C24. Calls that link different context names of one DID may overlap:   *)
(* once two callers have each completed a linkStorage or a                *)
(* storageConfig(name, true), for different names, getLink returns a      *)
(* config for the name of each.                                           *)
(***************************************************************************)
C24_ConcurrentLinksBothTakeEffect ==
    \A c1, c2 \in DOMAIN calls :
        ( /\ calls[c1].at = "done" /\ calls[c2].at = "done"
          /\ calls[c1].name # calls[c2].name )
        => /\ getLink(published, DID, calls[c1].name, TRUE) # <<>>
           /\ getLink(published, DID, calls[c2].name, TRUE) # <<>>

(***************************************************************************)
(* C25. A Context constructs at most one messaging engine: the            *)
(* getMessaging calls that constructed an engine, calls that overlap      *)
(* included, constructed the same one, and every getMessaging call that   *)
(* has returned has returned the engine the Context holds.                *)
(***************************************************************************)
C25_OneMessagingEngine ==
    \A c1, c2 \in DOMAIN calls :
        /\ ( /\ calls[c1].op = "getMessaging" /\ calls[c2].op = "getMessaging"
             /\ calls[c1].engine # <<>> /\ calls[c2].engine # <<>> )
           => calls[c1].engine = calls[c2].engine
        /\ ( /\ calls[c1].op = "getMessaging"
             /\ calls[c1].at = "done" /\ calls[c1].error = "" )
           => calls[c1].value = appContext.messagingEngine

\* both callers have a first-time open of the same DID that has constructed
\* its engine
BothConstructed(c1, c2) ==
    /\ c1 # c2
    /\ calls[c1].op = "openDatabase" /\ calls[c2].op = "openDatabase"
    /\ calls[c1].did = calls[c2].did
    /\ calls[c1].engine # <<>> /\ calls[c2].engine # <<>>

(***************************************************************************)
(* C30. Two first-time opens of one DID on one Context that overlap each  *)
(* construct an engine of their own: the two engines are different        *)
(* instances, each caller gets the one its call constructed, and every    *)
(* call writes its engine into the cache when its connectAccount has      *)
(* resolved, so the cache holds the engine written last.                  *)
(***************************************************************************)
C30_OverlappingOpensConstructTwo ==
    /\ [](\A c1, c2 \in DOMAIN calls :
             BothConstructed(c1, c2) => calls[c1].engine # calls[c2].engine)
    /\ [][ \A c \in DOMAIN calls :
             ( /\ calls[c].op = "openDatabase"
               /\ calls[c].at = "connect"
               /\ calls'[c].at = "done" )
             => /\ calls'[c].value = calls[c].engine
                /\ appContext'.databaseEngines[calls[c].did] = calls[c].engine[1]
                /\ \A d \in DOMAIN appContext.databaseEngines \ {calls[c].did} :
                       appContext'.databaseEngines[d] = appContext.databaseEngines[d]
       ]_vars

\* both callers have completed an open of the account's DID, each with an
\* engine of its own, and the cache holds the engine of the call that
\* completed last
C30_Witness ==
    /\ DOMAIN calls = Callers
    /\ BothConstructed("first", "second")
    /\ calls["first"].at = "done" /\ calls["second"].at = "done"
    /\ calls["first"].value # calls["second"].value
    /\ calls["first"].did = DID
    /\ last.op = "openDatabase"
    /\ last.value = calls["second"].value
    /\ appContext.databaseEngines[DID] = calls["second"].value[1]


\* the caller has a call that is suspended at a request of the resolver
AtResolver(c) ==
    IF c \in DOMAIN calls THEN calls[c].at \in {"getLink", "get", "save"} ELSE FALSE

(***************************************************************************)
(* C26: across any sequence of storageConfig, linkStorage, unlinkStorage,  *)
(* linkStorageContextService and getDidClient on an AutoAccount the root   *)
(* DID-client session is authenticated exactly once: no operation leaves   *)
(* the session unauthenticated, the session is authenticated when a call   *)
(* is at a request of the resolver, and an operation on an authenticated   *)
(* session does not authenticate again.                                    *)
(***************************************************************************)
C26_AuthenticatedExactlyOnce ==
    /\ [](/\ account.authentications <= 1
          /\ account.authenticated <=> account.authentications = 1
          /\ \A c \in SessionCallers : AtResolver(c) => account.authenticated)
    /\ [][/\ account'.authenticated
          /\ account'.authentications = 1
          /\ account.authenticated => account' = account]_vars

C26_Witness ==
    /\ account.authentications = 1
    /\ last.op = "getDidClient"
    /\ \E c \in SessionCallers : AtResolver(c) /\ calls[c].at = "save"
    /\ PublishedServices # <<>>

\* the ids of the entries a context name owns in a document
ContextEntryIds(d, contextName) ==
    { contextEntryId(d.id, generateContextHash(d.id, contextName), f) :
          f \in EndpointTypes \cup KeyFragments }

\* the verification methods or services of a document that the context
\* does not own, in their order
ForeignEntries(d, field, contextName) ==
    SelectSeq(Entries(d, field), LAMBDA e : e.id \notin ContextEntryIds(d, contextName))

\* the assertionMethod or keyAgreement references of a document that the
\* context does not own, in their order
ForeignReferences(d, field, contextName) ==
    SelectSeq(Entries(d, field), LAMBDA e : e \notin ContextEntryIds(d, contextName))

(***************************************************************************)
(* C27: addContext(X) and removeContext(X) leave every entry that X does   *)
(* not own as it was, in its place: the root verification method, the root *)
(* assertionMethod entry and the entries of every other context Y; so the  *)
(* link of every other name is the one it was, and a name whose addContext *)
(* has returned is linked.                                                 *)
(***************************************************************************)
C27_ContextOperationsFrame ==
    [][last'.op \in {"addContext", "removeContext"} =>
         /\ \A f \in {"verificationMethod", "service"} :
               ForeignEntries(doc', f, last'.name) = ForeignEntries(doc, f, last'.name)
         /\ \A f \in {"assertionMethod", "keyAgreement"} :
               ForeignReferences(doc', f, last'.name)
                   = ForeignReferences(doc, f, last'.name)
         /\ \A n \in ContextNames \ {last'.name} :
               documentLink(doc', generateContextHash(doc'.id, n))
                   = documentLink(doc, generateContextHash(doc.id, n))
         /\ (last'.op = "addContext" /\ ~last'.threw) =>
               documentLink(doc', generateContextHash(doc'.id, last'.name)) # <<>>]_vars

C27_Witness ==
    /\ last.op = "removeContext"
    /\ last.ret
    /\ documentLink(last.pre, generateContextHash(doc.id, last.name)) # <<>>
    /\ \E n \in ContextNames \ {last.name} :
          /\ documentLink(doc, generateContextHash(doc.id, n)) # <<>>
          /\ documentLink(doc, generateContextHash(doc.id, n))
                = documentLink(last.pre, generateContextHash(doc.id, n))

(***************************************************************************)
(* C28: a DID document holds only one record set for a context name even   *)
(* when two addContext calls for that name on the same document overlap:   *)
(* once both have returned and no call is in flight, the document holds    *)
(* exactly one #sign and one #asym verification method and one service     *)
(* entry per endpoint type for that context hash.                          *)
(***************************************************************************)
C28_OverlappingAddContextOneRecordSet ==
    ((\A c \in Callers : Idle(c)) /\ last.op = "addContext" /\ ~last.threw)
        => OneRecordSet(doc, HashOf(doc, last.name))

\* the document holds service entries of the context but none of its
\* verification methods
ServicesWithoutMethods(d, contextName) ==
    /\ \E t \in EndpointTypes : ServiceCount(d, HashOf(d, contextName), t) > 0
    /\ \A f \in KeyFragments : VmCount(d, HashOf(d, contextName), f) = 0

(***************************************************************************)
(* C29: signProof and export are excluded while addContext is between its  *)
(* service entries and its key entries on the same instance: neither runs  *)
(* while an addContext is suspended at getKeys, and no document that is    *)
(* signed or exported holds a context with service entries but no          *)
(* verification methods.                                                   *)
(***************************************************************************)
C29_MutationExcludesSignAndExport ==
    [][last'.op \in {"signProof", "export"} =>
         /\ \A c \in SessionCallers : ~(c \in DOMAIN calls /\ calls[c].at = "getKeys")
         /\ \A n \in ContextNames : ~ServicesWithoutMethods(doc, n)]_vars

\* the call reaches getDatabaseEngine: openDatabase on a Context with an
\* account, openExternalDatabase once its own getContextConfig has given a
\* config
ReachesEngineGetter(c, did) ==
    \/ c.op = "openDatabase" /\ appContext.account # <<>>
    \/ /\ c.op = "openExternalDatabase"
       /\ getContextConfig(appContext, published, account, <<did>>, FALSE).error = ""
       /\ getContextConfig(appContext, published, account, <<did>>, FALSE).value # <<>>

EnginesInstantiated ==
    { [did |-> d, contextName |-> appContext.contextName,
       id |-> appContext.databaseEngines[d].id] : d \in DOMAIN appContext.databaseEngines }
    \cup { [did |-> calls[c].did, contextName |-> appContext.contextName,
            id |-> calls[c].engine[1].id] :
                c \in {x \in DOMAIN calls : calls[x].engine # <<>>} }
    \cup UNION { { [did |-> d, contextName |-> cn,
                    id |-> appContext.client.contexts[cn].databaseEngines[d].id] :
                        d \in DOMAIN appContext.client.contexts[cn].databaseEngines } :
                  cn \in DOMAIN appContext.client.contexts }

(***************************************************************************)
(* C32: openExternalDatabase with a config.contextName that is not the     *)
(* name of this Context opens that external context and delegates the open *)
(* to it, constructing and caching no engine in this Context; and across   *)
(* the client at most one database engine is ever instantiated for a       *)
(* (did, context name) pair.                                               *)
(***************************************************************************)
C32_ExternalContextDelegation ==
    /\ [][ (last'.op = "openExternalDatabase" /\ Len(last'.arg) = 2)
           => /\ appContext'.databaseEngines = appContext.databaseEngines
              /\ appContext'.messagingEngine = appContext.messagingEngine
              /\ last'.error = ""
                    => /\ "client.openExternalContext" \in last'.effects
                       /\ last'.value[1].engine =
                             appContext'.client.contexts[last'.arg[2]]
                                 .databaseEngines[last'.arg[1]].id ]_vars
    /\ [](\A e1, e2 \in EnginesInstantiated :
             (e1.did = e2.did /\ e1.contextName = e2.contextName) => e1.id = e2.id)

(***************************************************************************)
(* C33: auth credentials are cached per (context, auth type): a            *)
(* getAuthContext for a name with one authType never returns the           *)
(* AuthContext of the handler that a call for that name with another       *)
(* authType has cached, and never that of a handler cached for another     *)
(* context.                                                                *)
(***************************************************************************)
C33_AuthCachedPerContextAndType ==
    [][ (last'.op = "getAuthContext" /\ last'.error = "")
        => /\ ( /\ Has(account.contextAuths, last'.name)
                /\ Has(history.handlerAuthType, last'.name)
                /\ history.handlerAuthType[last'.name] # last'.arg.authType )
              => last'.value[1].handler # account.contextAuths[last'.name].id
           /\ \A n \in DOMAIN account.contextAuths \ {last'.name} :
                 last'.value[1].handler # account.contextAuths[n].id ]_vars

(***************************************************************************)
(* C34: the session state of a VaultAccount is cleared on disconnect:      *)
(* after disconnect hasSession is false for every context, and keyring and *)
(* storageConfig give no keyring and no config for a context that was      *)
(* connected before, until that context is connected again.                *)
(***************************************************************************)
C34_DisconnectClearsSession ==
    [][ /\ last'.op = "disconnect"
              => \A n \in ContextNames : ~hasSession(vault', n)
        /\ ( /\ last'.op = "keyring"
             /\ <<last'.arg.account, last'.name>> \notin vault.connected )
              => last'.error # "" /\ last'.value = <<>>
        /\ ( /\ last'.op = "storageConfig"
             /\ <<last'.arg.account, last'.name>> \notin vault'.connected )
              => last'.value = <<>> ]_vars

\* the login config an account is to start a login with: the built-in
\* defaults, overridden by the account's own config, and its callbacks
OwnLoginConfig(a) ==
    merge(merge(CONFIG_DEFAULTS, VaultConfigOf[a]),
          [callback |-> a, callbackRejected |-> a])

(***************************************************************************)
(* C37: VaultAccount instances do not influence one another through shared *)
(* defaults: the login configuration connectContext passes to the login    *)
(* flow for an account is made of that account's own config and the        *)
(* built-in defaults, whatever other instances were created or connected   *)
(* before in the process.                                                  *)
(***************************************************************************)
C37_LoginConfigOfOwnAccount ==
    [][ (last'.op \in {"connectContext", "storageConfig"} /\ last'.arg.login # <<>>)
        => last'.arg.login[1] = OwnLoginConfig(last'.arg.account) ]_vars

\* the ids of the engines the caches of the Context hold
CachedEngineIds ==
    { appContext.databaseEngines[d].id : d \in DOMAIN appContext.databaseEngines }
    \cup { appContext.messagingEngine[i].id : i \in DOMAIN appContext.messagingEngine }

(***************************************************************************)
(* C35: every engine in the caches of a Context has completed              *)
(* connectAccount for the bound account: an engine whose connectAccount is *)
(* still in progress, or has failed, is not in the cache of database       *)
(* engines and is not the cached messaging engine.                         *)
(***************************************************************************)
C35_CachedEnginesConnected ==
    \A c \in DOMAIN calls :
        ( /\ calls[c].engine # <<>>
          /\ calls[c].at = "connect" \/ calls[c].error # "" )
        => calls[c].engine[1].id \notin CachedEngineIds

(***************************************************************************)
(* C36: the keyring linkStorage passes to setLink is the keyring derived   *)
(* from the name of the context, the one account.keyring(contextName)      *)
(* gives, for a config whose id is the name and for a config whose id is   *)
(* the context hash already, such as one returned by getLink.              *)
(***************************************************************************)
C36_LinkStorageKeyringOfContextName ==
    last.op = "linkStorage" => last.keyring = accountKeyring(last.name)

====
